---- MODULE Spec2Model ----
(***************************************************************************)
(* Forecasting-and-exceedance engine of the NASA POWER scripts             *)
(* (scripts/forecast_power.py and scripts/forecast_multivariate.py), and   *)
(* the weather-verdict endpoint of backend/test_full_system.py.            *)
(*                                                                         *)
(* Python floats are modelled as exact rationals <<n, d>> with d > 0 in    *)
(* lowest terms; NaN is <<0, 0>>.  None is the empty tuple, so a missing   *)
(* frame and an empty frame coincide: the scripts test both together       *)
(* ("df is None or len(df) == 0") wherever they read one.                  *)
(* Precipitation quantities are in millimetres.                            *)
(***************************************************************************)
EXTENDS Integers, Sequences, FiniteSets, TLC

VARIABLES
    pc,                 \* position of the run in the script
    rain_mm_for_risk,   \* forecast_power.py:677 quantity handed to rain_score
    mm_other,           \* a second quantity, not smaller, for comparing rain_score
    raw_score,          \* rain_score(rain_mm_for_risk), before rounding
    raw_other,          \* rain_score(mm_other)
    score,              \* forecast_power.py:698 climate_risk_score
    risk_label,         \* forecast_power.py:699-704
    tomorrow,           \* forecast_power.py:437 target date [year, month, day]
    df_prec,            \* forecast_power.py:447-474 precipitation rows, or None
    prec_sample,        \* forecast_power.py:500 day-window sample
    hist_avg_prec,      \* forecast_power.py:507-516
    forecast_prec,      \* forecast_power.py:538 raw forecast f
    stats_prec,         \* forecast_power.py:556 historical_stats.precip_mm
    prior_prec_var,     \* forecast_power.py:577-586 climatology variance v_p
    recent_prec_var,    \* forecast_power.py:591-598 recent variance v_f
    prior_mean_prec,    \* forecast_power.py:600-604 prior mean p
    weight_prior,       \* forecast_power.py:607-613 weight w on the prior
    adjusted_prec,      \* forecast_power.py:588-621 blended value
    display_prec,       \* forecast_power.py:649-673 displayed value
    shrunk_args,        \* forecast_power.py:560 arguments of compute_shrunk
    shrunk,             \* forecast_power.py:560-574 its return value
    pipeline,           \* "power" (forecast_power.py) or "multivariate"
    caps,               \* which fitting capabilities work, and what a fit yields
    df_hist,            \* historical rows: forecast_power.py:351-353, forecast_multivariate.py:202-214
    forecast_start,     \* forecast_power.py:361-364, as a day number
    forecast_days,      \* args.forecast_days
    threshold,          \* args.threshold
    model_res,          \* fitted model: forecast_power.py:366-368, forecast_multivariate.py:219
    residuals,          \* forecast_multivariate.py:125 held-out residuals
    history,            \* forecast_multivariate.py:137 working history
    step,               \* forecast_multivariate.py:139 loop counter
    results,            \* forecast_multivariate.py:138
    df_fore,            \* the forecast path
    sim_matrix,         \* forecast_power.py:394, forecast_multivariate.py:182
    prob_per_day,       \* forecast_power.py:399, forecast_multivariate.py:227
    overall_prob,       \* forecast_power.py:400/405, forecast_multivariate.py:228
    run,                \* 1 for a first run, 2 for a repeat with the same inputs
    first_run,          \* what the first run produced
    tried,              \* forecast_power.py:366-385 fitting strategies attempted, in order
    train_table,        \* forecast_multivariate.py:117 rows the regression is trained on
    feature_rows,       \* forecast_multivariate.py:142-156 feature row of each step
    summary_file,       \* outputs/forecast_summary.json, forecast_power.py:409-422
    json_out,           \* forecast_power.py:344 args.json_out
    df_temp,            \* forecast_power.py:447-472 temperature rows, or None
    df_wind,            \* forecast_power.py:447-476 wind rows, or None
    compact,            \* forecast_power.py:708-730 the machine-readable summary
    stdout,             \* what the compact block printed, forecast_power.py:731-747
    call_site,          \* which fetch is running
    provider,           \* the series the data provider holds for the request
    attempts,           \* HTTP requests sent by _SESSION.get so far
    http_status,        \* status of the last HTTP response
    fetched,            \* frame returned by the fetch function
    request,            \* test_full_system.py:82 JSON body of the POST
    calls,              \* test_full_system.py:116-121 helpers the handler called
    response,           \* test_full_system.py:89-141 (body, status code)
    sim_std             \* the simulation scale of each day: forecast_power.py:388-391, forecast_multivariate.py:176-179

riskVars == <<rain_mm_for_risk, mm_other, raw_score, raw_other, score, risk_label>>
compactVars == <<tomorrow, df_prec, prec_sample, hist_avg_prec, forecast_prec,
                 stats_prec, prior_prec_var, recent_prec_var, prior_mean_prec,
                 weight_prior, adjusted_prec, display_prec>>
shrunkVars == <<shrunk_args, shrunk>>
inputVars == <<pipeline, caps, df_hist, forecast_start, forecast_days, threshold>>
runVars == <<tried, train_table, feature_rows, summary_file>>
fcVars == <<inputVars, model_res, residuals, history, step, results, df_fore,
            sim_matrix, prob_per_day, overall_prob, run, first_run, runVars>>
ioVars == <<json_out, df_temp, df_wind, compact, stdout, call_site, provider,
            attempts, http_status, fetched, request, calls, response>>
extVars == <<ioVars, sim_std>>
vars == <<pc, riskVars, compactVars, shrunkVars, fcVars, extVars>>

None == <<>>
NaN == <<0, 0>>

-----------------------------------------------------------------------------
(* Float arithmetic, as exact rationals.                                   *)

Abs(i) == IF i < 0 THEN -i ELSE i

RECURSIVE GCD(_, _)
GCD(a, b) == IF b = 0 THEN a ELSE GCD(b, a % b)

Norm(n, d) ==
    LET g == GCD(Abs(n), Abs(d))
        s == IF d < 0 THEN -1 ELSE 1
    IN  <<(s * n) \div g, (s * d) \div g>>

R(i) == <<i, 1>>
Frac(n, d) == Norm(n, d)
RAdd(x, y) == Norm(x[1] * y[2] + y[1] * x[2], x[2] * y[2])
RSub(x, y) == Norm(x[1] * y[2] - y[1] * x[2], x[2] * y[2])
RMul(x, y) == Norm(x[1] * y[1], x[2] * y[2])
RDiv(x, y) == Norm(x[1] * y[2], x[2] * y[1])
RLt(x, y) == x[1] * y[2] < y[1] * x[2]
RLe(x, y) == x[1] * y[2] <= y[1] * x[2]
RMin(x, y) == IF RLe(x, y) THEN x ELSE y
RMax(x, y) == IF RLe(x, y) THEN y ELSE x

(* Python 3 round(x): nearest integer, ties to the even one. *)
PyRound(x) ==
    LET fl == x[1] \div x[2]
        twice == 2 * (x[1] - fl * x[2])
    IN  IF twice < x[2] THEN fl
        ELSE IF twice > x[2] THEN fl + 1
        ELSE IF fl % 2 = 0 THEN fl ELSE fl + 1

-----------------------------------------------------------------------------
(* numpy / pandas reductions over a sequence of floats.                    *)

RECURSIVE SeqSum(_)
SeqSum(a) == IF a = <<>> THEN R(0) ELSE RAdd(Head(a), SeqSum(Tail(a)))

np_mean(a) == RDiv(SeqSum(a), R(Len(a)))

(* np.var(a, ddof=ddof); Len(a) > ddof at every call. *)
np_var(a, ddof) ==
    LET m == np_mean(a)
        sq == [i \in 1..Len(a) |-> RMul(RSub(a[i], m), RSub(a[i], m))]
    IN  RDiv(SeqSum(sq), R(Len(a) - ddof))

Sorted(a) == SortSeq(a, LAMBDA x, y : RLt(x, y))

Reversed(a) == [i \in 1..Len(a) |-> a[Len(a) + 1 - i]]

(* np.percentile(a, q), linear interpolation between the closest ranks. *)
np_percentile(a, q) ==
    LET srt == Sorted(a)
        pos == Frac(q * (Len(a) - 1), 100)
        lo == pos[1] \div pos[2]
        frac == RSub(pos, R(lo))
    IN  IF frac = R(0) THEN srt[lo + 1]
        ELSE RAdd(srt[lo + 1], RMul(frac, RSub(srt[lo + 2], srt[lo + 1])))

np_median(a) ==
    LET srt == Sorted(a)
        n == Len(a)
    IN  IF n % 2 = 1 THEN srt[(n + 1) \div 2]
        ELSE RDiv(RAdd(srt[n \div 2], srt[n \div 2 + 1]), R(2))

(* Series.tail(n) and list[:n]. *)
tail(a, n) == IF Len(a) <= n THEN a ELSE SubSeq(a, Len(a) - n + 1, Len(a))
FirstN(a, n) == IF Len(a) <= n THEN a ELSE SubSeq(a, 1, n)

Values(df) == [i \in 1..Len(df) |-> df[i].value]

-----------------------------------------------------------------------------
(* Calendar: pd.Timestamp as a day number counted from 1 January EpochYear. *)

EpochYear == 2023

IsLeap(y) == (y % 4 = 0 /\ y % 100 # 0) \/ y % 400 = 0

DaysInMonth(y, m) ==
    IF m \in {1, 3, 5, 7, 8, 10, 12} THEN 31
    ELSE IF m \in {4, 6, 9, 11} THEN 30
    ELSE IF IsLeap(y) THEN 29 ELSE 28

RECURSIVE DaysBeforeMonth(_, _)
DaysBeforeMonth(y, m) ==
    IF m = 1 THEN 0 ELSE DaysBeforeMonth(y, m - 1) + DaysInMonth(y, m - 1)

RECURSIVE DaysBeforeYear(_)
DaysBeforeYear(y) ==
    IF y <= EpochYear THEN 0
    ELSE DaysBeforeYear(y - 1) + (IF IsLeap(y - 1) THEN 366 ELSE 365)

(* pd.Timestamp(year=y, month=m, day=d) raises for a day the month lacks. *)
ValidDate(y, m, d) == d \in 1..DaysInMonth(y, m)
Timestamp(y, m, d) == DaysBeforeYear(y) + DaysBeforeMonth(y, m) + d - 1

-----------------------------------------------------------------------------
(* Climatology sampler, forecast_power.py:479-557.                         *)

InIndex(df, d) == \E i \in 1..Len(df) : df[i].date = d
Loc(df, d) == df[CHOOSE i \in 1..Len(df) : df[i].date = d].value

(* The (year, offset) pairs in the order of the two nested loops. *)
RECURSIVE WindowLoop(_, _, _, _, _, _)
WindowLoop(df, target_dt, buffer_days, y, off, end_yr) ==
    IF y > end_yr THEN <<>>
    ELSE IF off > buffer_days
        THEN WindowLoop(df, target_dt, buffer_days, y + 1, -buffer_days, end_yr)
    ELSE LET rest == WindowLoop(df, target_dt, buffer_days, y, off + 1, end_yr)
         IN  IF ~ValidDate(y, target_dt.month, target_dt.day) THEN rest
             ELSE LET d == Timestamp(y, target_dt.month, target_dt.day) + off
                  IN  IF InIndex(df, d) THEN <<Loc(df, d)>> \o rest ELSE rest

sample_day_window(df, target_dt, buffer_days, start_yr, end_yr) ==
    IF df = None \/ Len(df) = 0 THEN <<>>
    ELSE WindowLoop(df, target_dt, buffer_days, start_yr, -buffer_days, end_yr)

(* json.dump of a float or None: NaN is written as the bare token NaN. *)
json_dump(x) ==
    IF x = None THEN [json |-> "null"]
    ELSE IF x = NaN THEN [json |-> "NaN"]
    ELSE [json |-> "number", value |-> x]

mean_or_nan(arr) == IF Len(arr) = 0 THEN NaN ELSE np_mean(arr)

(* Bug variant: an empty sample yields statistics of zeros instead of None. *)
hist_stats_from_array_zeros(arr) ==
    IF Len(arr) = 0
    THEN [count |-> 0, median |-> R(0), p25 |-> R(0), p75 |-> R(0), top5 |-> <<>>]
    ELSE [count |-> Len(arr),
          median |-> np_median(arr),
          p25 |-> np_percentile(arr, 25),
          p75 |-> np_percentile(arr, 75),
          top5 |-> FirstN(Reversed(Sorted(arr)), 5)]

hist_stats_from_array(arr) ==
    IF Len(arr) = 0 THEN None
    ELSE [count |-> Len(arr),
          median |-> np_median(arr),
          p25 |-> np_percentile(arr, 25),
          p75 |-> np_percentile(arr, 75),
          top5 |-> FirstN(Reversed(Sorted(arr)), 5)]

-----------------------------------------------------------------------------
(* Shrinkage blender, forecast_power.py:559-621.                           *)

(* Bug variant: a missing forecast is returned as missing although a prior exists. *)
compute_shrunk_no_prior(forecast_val, forecast_var, prior_mean, prior_var) ==
    IF forecast_val = None \/ prior_mean = None THEN forecast_val
    ELSE LET fv == IF forecast_var # None /\ RLt(R(0), forecast_var)
                   THEN forecast_var ELSE R(1)
             pv == IF prior_var # None /\ RLt(R(0), prior_var)
                   THEN prior_var ELSE R(1)
         IN  RDiv(RAdd(RDiv(forecast_val, fv), RDiv(prior_mean, pv)),
                  RAdd(RDiv(R(1), fv), RDiv(R(1), pv)))

compute_shrunk(forecast_val, forecast_var, prior_mean, prior_var) ==
    IF forecast_val = None /\ prior_mean = None THEN None
    ELSE IF forecast_val = None THEN prior_mean
    ELSE IF prior_mean = None THEN forecast_val
    ELSE LET fv == IF forecast_var # None /\ RLt(R(0), forecast_var)
                   THEN forecast_var ELSE R(1)
             pv == IF prior_var # None /\ RLt(R(0), prior_var)
                   THEN prior_var ELSE R(1)
         IN  RDiv(RAdd(RDiv(forecast_val, fv), RDiv(prior_mean, pv)),
                  RAdd(RDiv(R(1), fv), RDiv(R(1), pv)))

(* forecast_power.py:577-586 *)
PriorPrecVar(sample, stats) ==
    IF Len(sample) > 1 THEN np_var(sample, 1)
    ELSE IF stats # None
        THEN LET iqr == RSub(stats.p75, stats.p25)
             IN  IF RLt(R(0), iqr)
                 THEN RMul(RDiv(iqr, Frac(1349, 1000)), RDiv(iqr, Frac(1349, 1000)))
                 ELSE R(1)
    ELSE None

(* forecast_power.py:591-598 *)
RecentPrecVar(df) ==
    IF df # None /\ Len(df) >= 2 THEN np_var(tail(Values(df), 14), 1) ELSE None

(* Bug variant: no fall-back to the historical average. *)
PriorMeanPrec_window_only(stats, hist_avg) ==
    IF stats # None THEN stats.median ELSE None

(* forecast_power.py:600-604 *)
PriorMeanPrec(stats, hist_avg) ==
    IF stats # None THEN stats.median
    ELSE IF hist_avg # None THEN hist_avg
    ELSE None

(* Bug variant: lower clamp at 0.1 instead of 0.3. *)
WeightPrior_loose(recent_var, prior_var) ==
    IF /\ recent_var # None /\ RLt(R(0), recent_var)
       /\ prior_var # None /\ RLt(R(0), prior_var)
    THEN RMax(Frac(1, 10),
              RMin(Frac(9, 10), RDiv(recent_var, RAdd(recent_var, prior_var))))
    ELSE None

(* forecast_power.py:607-613 *)
WeightPrior(recent_var, prior_var) ==
    IF /\ recent_var # None /\ RLt(R(0), recent_var)
       /\ prior_var # None /\ RLt(R(0), prior_var)
    THEN RMax(Frac(3, 10),
              RMin(Frac(9, 10), RDiv(recent_var, RAdd(recent_var, prior_var))))
    ELSE None

(* Bug variant: the forecast keeps its full weight next to the prior's. *)
AdjustedPrec_unscaled(f, w, p, recent_var, prior_var) ==
    LET adj == IF w # None /\ p # None
               THEN RAdd(RMul(w, p), f)
               ELSE IF f # None /\ p # None
               THEN RAdd(f, p)
               ELSE compute_shrunk(f, recent_var, p, prior_var)
    IN  IF adj # None /\ RLt(adj, R(0)) THEN R(0) ELSE adj

(* forecast_power.py:614-621 *)
AdjustedPrec(f, w, p, recent_var, prior_var) ==
    LET adj == IF w # None /\ p # None
               THEN RAdd(RMul(w, p), RMul(RSub(R(1), w), f))
               ELSE compute_shrunk(f, recent_var, p, prior_var)
    IN  IF adj # None /\ RLt(adj, R(0)) THEN R(0) ELSE adj

(* Bug variant: the upper clamp is dropped. *)
DisplayPrec_no_upper(adjusted, f, stats, hist_avg) ==
    LET base_prec == IF adjusted # None THEN adjusted ELSE f
        lo == IF stats # None THEN RMin(stats.p25, stats.p75)
              ELSE IF hist_avg # None THEN R(0)
              ELSE None
    IN  IF base_prec = None THEN None
        ELSE IF lo # None THEN RMax(R(0), RMax(base_prec, lo))
        ELSE RMax(R(0), base_prec)

(* forecast_power.py:649-673 *)
DisplayPrec(adjusted, f, stats, hist_avg) ==
    LET base_prec == IF adjusted # None THEN adjusted ELSE f
        med == IF stats # None THEN stats.median ELSE None
        avg == hist_avg
        lo == IF stats # None THEN RMin(stats.p25, stats.p75)
              ELSE IF med # None /\ avg # None THEN RMin(med, avg)
              ELSE IF med # None \/ avg # None THEN R(0)
              ELSE None
        hi == IF stats # None THEN RMax(stats.p25, stats.p75)
              ELSE IF med # None /\ avg # None THEN RMax(med, avg)
              ELSE IF med # None THEN med
              ELSE IF avg # None THEN avg
              ELSE None
    IN  IF base_prec = None THEN None
        ELSE IF lo # None /\ hi # None
            THEN RMax(R(0), RMin(RMax(base_prec, lo), hi))
        ELSE RMax(R(0), base_prec)

-----------------------------------------------------------------------------
(* Risk scorer, forecast_power.py:685-704.                                 *)

(* Bug variant: the 1..5 mm band scaled onto 40..75 instead of 40..70. *)
rain_score_steep(mm) ==
    IF mm = None \/ RLe(mm, R(0)) THEN R(0)
    ELSE IF RLt(mm, R(1)) THEN R(15)
    ELSE IF RLt(mm, R(5))
        THEN RAdd(R(40), RMul(RDiv(RSub(mm, R(1)), R(4)), R(35)))
    ELSE IF RLt(mm, R(20))
        THEN RAdd(R(70), RMul(RDiv(RSub(mm, R(5)), R(15)), R(30)))
    ELSE R(100)

rain_score(mm) ==
    IF mm = None \/ RLe(mm, R(0)) THEN R(0)
    ELSE IF RLt(mm, R(1)) THEN R(15)
    ELSE IF RLt(mm, R(5))
        THEN RAdd(R(40), RMul(RDiv(RSub(mm, R(1)), R(4)), R(30)))
    ELSE IF RLt(mm, R(20))
        THEN RAdd(R(70), RMul(RDiv(RSub(mm, R(5)), R(15)), R(30)))
    ELSE R(100)

(* Bug variant: strict comparison at the High threshold. *)
RiskLabel_strict(s) ==
    IF s > 70 THEN "High Risk"
    ELSE IF s >= 40 THEN "Medium Risk"
    ELSE "Low Risk"

RiskLabel(s) ==
    IF s >= 70 THEN "High Risk"
    ELSE IF s >= 40 THEN "Medium Risk"
    ELSE "Low Risk"

(* Quantities the risk scorer is applied to, in hundredths of a millimetre: *)
(* a coarse grid plus every hundredth around the band edges 1, 5 and 20.    *)
NegMM == 50
MaxMM == 2600
MMStep == 50
EdgeWidth == 7
BandEdges == {0, 100, 500, 2000}

MMInputs ==
    {m \in -NegMM..MaxMM :
        \/ m % MMStep = 0
        \/ \E e \in BandEdges : Abs(m - e) <= EdgeWidth}

Hundredths(m) == Frac(m, 100)

ShrunkIdle ==
    /\ shrunk_args = None
    /\ shrunk = None

ForecastIdle ==
    /\ pipeline = "none"
    /\ caps = None
    /\ df_hist = None
    /\ forecast_start = 0
    /\ forecast_days = 0
    /\ threshold = None
    /\ model_res = None
    /\ residuals = None
    /\ history = None
    /\ step = 0
    /\ results = None
    /\ df_fore = None
    /\ sim_matrix = None
    /\ prob_per_day = None
    /\ overall_prob = None
    /\ run = 0
    /\ first_run = None
    /\ tried = <<>>
    /\ train_table = None
    /\ feature_rows = None
    /\ summary_file = None

(* Variables of the other parts of the program, at rest; g names the part  *)
(* that is running.                                                        *)
ExtIdle(g) ==
    /\ sim_std = None
    /\ g = "compact" \/ (/\ json_out = FALSE
                         /\ df_temp = None
                         /\ df_wind = None
                         /\ compact = None
                         /\ stdout = None)
    /\ g = "fetch" \/ (/\ call_site = "none"
                       /\ provider = None
                       /\ attempts = 0
                       /\ http_status = 0
                       /\ fetched = None)
    /\ g = "api" \/ (/\ request = None
                     /\ calls = <<>>
                     /\ response = None)

CompactIdle ==
    /\ tomorrow = None
    /\ df_prec = None
    /\ prec_sample = None
    /\ hist_avg_prec = None
    /\ forecast_prec = None
    /\ stats_prec = None
    /\ prior_prec_var = None
    /\ recent_prec_var = None
    /\ prior_mean_prec = None
    /\ weight_prior = None
    /\ adjusted_prec = None
    /\ display_prec = None

InitRisk ==
    /\ pc = "risk_input"
    /\ rain_mm_for_risk \in {Hundredths(m) : m \in MMInputs} \cup {None}
    /\ mm_other \in {Hundredths(m) : m \in MMInputs}
    /\ rain_mm_for_risk # None => RLe(rain_mm_for_risk, mm_other)
    /\ raw_score = None
    /\ raw_other = None
    /\ score = None
    /\ risk_label = "unset"
    /\ CompactIdle
    /\ ShrunkIdle
    /\ ForecastIdle
    /\ ExtIdle("none")

(* forecast_power.py:685-696 applied to the two quantities. *)
ApplyRainScore ==
    /\ pc = "risk_input"
    /\ raw_score' = rain_score(rain_mm_for_risk)
    /\ raw_other' = rain_score(mm_other)
    /\ pc' = "risk_ready"
    /\ UNCHANGED <<rain_mm_for_risk, mm_other, score, risk_label, compactVars,
                   shrunkVars, fcVars, extVars>>

(* forecast_power.py:698-704. *)
ScoreAndLabel ==
    /\ pc = "risk_ready"
    /\ score' = PyRound(rain_score(rain_mm_for_risk))
    /\ risk_label' = RiskLabel(PyRound(rain_score(rain_mm_for_risk)))
    /\ pc' = "risk_done"
    /\ UNCHANGED <<rain_mm_for_risk, mm_other, raw_score, raw_other, compactVars,
                   shrunkVars, fcVars, extVars>>

NextRisk == ApplyRainScore \/ ScoreAndLabel

SpecRisk == InitRisk /\ [][NextRisk]_vars

-----------------------------------------------------------------------------
(* Compact summary of forecast_power.py (main, lines 434-747): the          *)
(* precipitation path from the fetched series to the risk label.           *)

StartYear == 2023       \* args.start
EndYear == 2024         \* args.end
BufferDays == 3         \* buffer, forecast_power.py:498

(* Forecast start dates the summary is asked for. *)
TomorrowSet == {[year |-> 2025, month |-> 3, day |-> 2],
                [year |-> 2028, month |-> 2, day |-> 29]}

(* Observed daily precipitation totals, in mm. *)
MaxPrec == 9
PrecVals == {v \in 0..MaxPrec : v <= 1 \/ v = MaxPrec}

(* Days that may carry an observation: around the target calendar day in   *)
(* the first and last historical year, just inside and just outside the    *)
(* window, and a block of the most recent days of the series.              *)
Anchor(y, t) == Timestamp(y, t.month, 1) + t.day - 1
OlderDates(t) ==
    {Anchor(StartYear, t) - (BufferDays + 1), Anchor(StartYear, t) - BufferDays,
     Anchor(EndYear, t), Anchor(EndYear, t) + BufferDays,
     Anchor(EndYear, t) + BufferDays + 1}
RecentRows == 7
RecentDates == {Timestamp(EndYear, 12, 31) - k : k \in 0..(RecentRows - 1)}

RECURSIVE SortedDates(_)
SortedDates(S) ==
    IF S = {} THEN <<>>
    ELSE LET d == CHOOSE x \in S : \A z \in S : x <= z
         IN  <<d>> \o SortedDates(S \ {d})

(* The frame a fetch returns after sentinel removal, dropna and sorting. *)
Frame(f) ==
    LET ds == SortedDates(DOMAIN f)
    IN  [i \in 1..Len(ds) |-> [date |-> ds[i], value |-> R(f[ds[i]])]]

FetchedFrames(t) ==
    {Frame(f) : f \in UNION {[S -> PrecVals] : S \in SUBSET OlderDates(t)}}

InitCompact ==
    /\ pc = "compact_fetch"
    /\ tomorrow \in TomorrowSet
    /\ df_prec = None
    /\ prec_sample = None
    /\ hist_avg_prec = None
    /\ forecast_prec = None
    /\ stats_prec = None
    /\ prior_prec_var = None
    /\ recent_prec_var = None
    /\ prior_mean_prec = None
    /\ weight_prior = None
    /\ adjusted_prec = None
    /\ display_prec = None
    /\ rain_mm_for_risk = None
    /\ mm_other = None
    /\ raw_score = None
    /\ raw_other = None
    /\ score = None
    /\ risk_label = "unset"
    /\ ShrunkIdle
    /\ ForecastIdle
    /\ ExtIdle("compact")
    /\ json_out = TRUE       \* the block is run for --json-out
    /\ df_temp = None
    /\ df_wind = None
    /\ compact = None
    /\ stdout = None

(* forecast_power.py:439-476: the precipitation frame, or None when every  *)
(* fetch failed or the parameter is absent from the response; likewise     *)
(* the temperature and wind frames.  A provider value that float() does    *)
(* not accept is kept as it is (line 158): <<"n/a">> stands for one, on    *)
(* the target calendar day of the last historical year.                    *)
FetchCompact ==
    /\ pc = "compact_fetch"
    /\ \/ df_prec' = None
       \/ df_prec' = <<[date |-> Anchor(EndYear, tomorrow), value |-> <<"n/a">>]>>
       \/ \E older \in FetchedFrames(tomorrow) :
            \/ df_prec' = older
            \/ \E v \in PrecVals :
                 df_prec' = older \o Frame([d \in RecentDates |-> v])
    /\ df_temp' \in {None,
                     Frame([d \in {Anchor(EndYear, tomorrow),
                                   Anchor(EndYear, tomorrow) + 1} |->
                               30 + d - Anchor(EndYear, tomorrow)])}
    /\ df_wind' \in {None, Frame([d \in RecentDates |-> 4])}
    /\ pc' = "compact_sample"
    /\ UNCHANGED <<sim_std, tomorrow, prec_sample, hist_avg_prec, forecast_prec,
                   stats_prec, prior_prec_var, recent_prec_var,
                   prior_mean_prec, weight_prior, adjusted_prec, display_prec,
                   json_out, compact, stdout, call_site, provider, attempts,
                   http_status, fetched, request, calls, response,
                   riskVars, shrunkVars, fcVars>>

(* forecast_power.py:479-520; float(v) at line 494 raises on a value that  *)
(* is not a number, and the except clause at lines 746-747 prints.         *)
SampleWindows ==
    /\ pc = "compact_sample"
    /\ LET smp == sample_day_window(df_prec, tomorrow, BufferDays,
                                    StartYear, EndYear)
       IN  IF \E i \in 1..Len(smp) : smp[i] = <<"n/a">>
           THEN /\ stdout' = [kind |-> "text", text |-> "Compact summary failed"]
                /\ pc' = "compact_failed"
                /\ UNCHANGED <<prec_sample, hist_avg_prec>>
           ELSE /\ prec_sample' = smp
                /\ hist_avg_prec' =
                     IF Len(smp) > 0 THEN mean_or_nan(smp)
                     ELSE IF df_prec # None /\ Len(df_prec) > 0
                         THEN np_mean(Values(df_prec))
                     ELSE None
                /\ pc' = "compact_forecast"
                /\ UNCHANGED stdout
    /\ UNCHANGED <<sim_std, tomorrow, df_prec, forecast_prec, stats_prec,
                   prior_prec_var, recent_prec_var, prior_mean_prec,
                   weight_prior, adjusted_prec, display_prec,
                   json_out, df_temp, df_wind, compact, call_site, provider,
                   attempts, http_status, fetched, request, calls, response,
                   riskVars, shrunkVars, fcVars>>

(* forecast_power.py:537-538 *)
SimpleForecast ==
    /\ pc = "compact_forecast"
    /\ forecast_prec' =
         IF df_prec # None /\ Len(df_prec) > 0
         THEN np_mean(tail(Values(df_prec), 7)) ELSE None
    /\ pc' = "compact_stats"
    /\ UNCHANGED <<tomorrow, df_prec, prec_sample, hist_avg_prec, stats_prec,
                   prior_prec_var, recent_prec_var, prior_mean_prec,
                   weight_prior, adjusted_prec, display_prec, riskVars, shrunkVars, fcVars, extVars>>

(* forecast_power.py:541-557 *)
HistStats ==
    /\ pc = "compact_stats"
    /\ stats_prec' = hist_stats_from_array(prec_sample)
    /\ pc' = "compact_shrink"
    /\ UNCHANGED <<tomorrow, df_prec, prec_sample, hist_avg_prec,
                   forecast_prec, prior_prec_var, recent_prec_var,
                   prior_mean_prec, weight_prior, adjusted_prec, display_prec,
                   riskVars, shrunkVars, fcVars, extVars>>

(* forecast_power.py:576-621 *)
Shrink ==
    /\ pc = "compact_shrink"
    /\ prior_prec_var' = PriorPrecVar(prec_sample, stats_prec)
    /\ IF forecast_prec # None
       THEN /\ recent_prec_var' = RecentPrecVar(df_prec)
            /\ prior_mean_prec' = PriorMeanPrec(stats_prec, hist_avg_prec)
            /\ weight_prior' = WeightPrior(recent_prec_var', prior_prec_var')
            /\ adjusted_prec' = AdjustedPrec(forecast_prec, weight_prior',
                                             prior_mean_prec', recent_prec_var',
                                             prior_prec_var')
       ELSE UNCHANGED <<recent_prec_var, prior_mean_prec, weight_prior,
                        adjusted_prec>>
    /\ pc' = "compact_display"
    /\ UNCHANGED <<tomorrow, df_prec, prec_sample, hist_avg_prec,
                   forecast_prec, stats_prec, display_prec, riskVars, shrunkVars, fcVars, extVars>>

(* forecast_power.py:647-673 *)
Display ==
    /\ pc = "compact_display"
    /\ display_prec' = DisplayPrec(adjusted_prec, forecast_prec, stats_prec,
                                   hist_avg_prec)
    /\ pc' = "compact_risk"
    /\ UNCHANGED <<tomorrow, df_prec, prec_sample, hist_avg_prec,
                   forecast_prec, stats_prec, prior_prec_var, recent_prec_var,
                   prior_mean_prec, weight_prior, adjusted_prec, riskVars, shrunkVars, fcVars, extVars>>

(* forecast_power.py:677-683 *)
RiskInput ==
    /\ pc = "compact_risk"
    /\ rain_mm_for_risk' =
         IF display_prec # None THEN display_prec
         ELSE IF adjusted_prec # None THEN adjusted_prec
         ELSE forecast_prec
    /\ pc' = "risk_ready"
    /\ UNCHANGED <<mm_other, raw_score, raw_other, score, risk_label,
                   compactVars, shrunkVars, fcVars, extVars>>

(* forecast_power.py:500-536, 554-557, 625-645 and 706-744: the temperature *)
(* and wind values, the sparkline, the summary object and what is printed.  *)
(* Each numeric field is held as json.dumps writes it.                      *)
EmitCompact ==
    /\ pc = "risk_done"
    /\ LET Round2(x) ==
               IF x = None THEN None
               ELSE Frac(PyRound(RMul(x, R(100))), 100)
           Sample(df) == sample_day_window(df, tomorrow, BufferDays,
                                           StartYear, EndYear)
           HistAvg(df) ==
               IF Len(Sample(df)) > 0 THEN mean_or_nan(Sample(df))
               ELSE IF df # None /\ Len(df) > 0 THEN np_mean(Values(df))
               ELSE None
           TailMean(df) ==
               IF df # None /\ Len(df) > 0
               THEN np_mean(tail(Values(df), 7)) ELSE None
           Stats(df) ==
               IF Len(Sample(df)) = 0 THEN [json |-> "null"]
               ELSE [json |-> "object",
                     value |-> hist_stats_from_array(Sample(df))]
           vals == IF df_fore # None /\ Len(df_fore) > 0
                   THEN FirstN([i \in 1..Len(df_fore) |-> df_fore[i].mean], 20)
                   ELSE IF df_temp # None /\ Len(df_temp) > 0
                   THEN tail(Values(df_temp), 20)
                   ELSE <<>>
           vmin == CHOOSE v \in {vals[i] : i \in 1..Len(vals)} :
                       \A i \in 1..Len(vals) : RLe(v, vals[i])
           vmax == CHOOSE v \in {vals[i] : i \in 1..Len(vals)} :
                       \A i \in 1..Len(vals) : RLe(vals[i], v)
           rng == RMax(Frac(1, 1000000), RSub(vmax, vmin))
       IN  compact' =
             [location |-> [lat |-> "lat", lon |-> "lon"],
              forecast_date |-> tomorrow,
              forecast |->
                  [temp_c |-> json_dump(Round2(TailMean(df_temp))),
                   precip_mm |-> json_dump(Round2(display_prec)),
                   wind_m_s |-> json_dump(Round2(TailMean(df_wind)))],
              historical_avg |->
                  [temp_c |-> json_dump(Round2(HistAvg(df_temp))),
                   precip_mm |-> json_dump(Round2(hist_avg_prec)),
                   wind_m_s |-> json_dump(Round2(HistAvg(df_wind)))],
              historical_stats |->
                  [temp_c |-> Stats(df_temp),
                   precip_mm |-> Stats(df_prec),
                   wind_m_s |-> Stats(df_wind)],
              forecast_adjusted |->
                  [precip_mm |-> json_dump(Round2(adjusted_prec))],
              forecast_raw |-> [precip_mm |-> json_dump(Round2(forecast_prec))],
              climate_risk_score |-> [json |-> "number", value |-> score],
              risk_label |-> risk_label,
              dominant_factor |-> "Rain",
              sparkline |->
                  IF Len(vals) = 0 THEN [json |-> "null"]
                  ELSE [json |-> "array",
                        value |-> [i \in 1..Len(vals) |->
                                      RDiv(RSub(vals[i], vmin), rng)]]]
    /\ stdout' = IF json_out THEN [kind |-> "json", object |-> compact']
                 ELSE [kind |-> "text", text |-> "report"]
    /\ pc' = "compact_emitted"
    /\ UNCHANGED <<sim_std, json_out, df_temp, df_wind, call_site, provider, attempts,
                   http_status, fetched, request, calls, response,
                   riskVars, compactVars, shrunkVars, fcVars>>

NextCompact ==
    \/ FetchCompact
    \/ SampleWindows
    \/ SimpleForecast
    \/ HistStats
    \/ Shrink
    \/ Display
    \/ RiskInput
    \/ ScoreAndLabel
    \/ EmitCompact

SpecCompact == InitCompact /\ [][NextCompact]_vars

-----------------------------------------------------------------------------
(* compute_shrunk as a function of its four arguments, each possibly None. *)

MaxShrunkVal == 3
ShrunkMeans == {None} \cup {R(v) : v \in 0..MaxShrunkVal}
ShrunkVariances == {None} \cup {Frac(k, 2) : k \in 0..MaxShrunkVal}

InitShrunk ==
    /\ pc = "shrunk_call"
    /\ shrunk_args \in [forecast_val : ShrunkMeans, forecast_var : ShrunkVariances,
                        prior_mean : ShrunkMeans, prior_var : ShrunkVariances]
    /\ shrunk = None
    /\ CompactIdle
    /\ ForecastIdle
    /\ ExtIdle("none")
    /\ rain_mm_for_risk = None
    /\ mm_other = None
    /\ raw_score = None
    /\ raw_other = None
    /\ score = None
    /\ risk_label = "unset"

(* forecast_power.py:560-574 *)
ApplyComputeShrunk ==
    /\ pc = "shrunk_call"
    /\ shrunk' = compute_shrunk(shrunk_args.forecast_val, shrunk_args.forecast_var,
                                shrunk_args.prior_mean, shrunk_args.prior_var)
    /\ pc' = "shrunk_returned"
    /\ UNCHANGED <<shrunk_args, riskVars, compactVars, fcVars, extVars>>

NextShrunk == ApplyComputeShrunk

SpecShrunk == InitShrunk /\ [][NextShrunk]_vars

-----------------------------------------------------------------------------
(* Forecast and exceedance simulation: forecast_power.py main, lines        *)
(* 351-422, and forecast_multivariate.py main, lines 202-246.  Fitting is   *)
(* library code: what a fit on the given data yields is part of the         *)
(* environment (caps) and is the same whenever the same data is fitted.     *)

MaxHist == 3            \* rows of history of the univariate script
MaxMultiHist == 10      \* rows of history of the multivariate script
MaxForecastDays == 2    \* largest args.forecast_days
MaxStartGap == 3        \* forecast_start is at most this many days after the history
Nsim == 2               \* samples per forecast day
Lags == 3               \* args.lags
MaxNoise == 1           \* distance of a drawn sample from its mean

HistEnd == Timestamp(EndYear, 12, 31)
BaseTemp == 28
BaseRH == 50
Cols == <<"T2M", "RH2M">>

(* Histories: n contiguous days ending at HistEnd, every value distinct. *)
PowerTable(n) ==
    [i \in 1..n |-> [date |-> HistEnd - n + i, value |-> R(BaseTemp + i)]]
MultiTable(n) ==
    [i \in 1..n |-> [date |-> HistEnd - n + i,
                     T2M |-> R(BaseTemp + i), RH2M |-> R(BaseRH + 2 * i)]]

IndexMax(df) == df[Len(df)].date

(* A univariate fit yields a level and an interval half-width; the ensemble *)
(* regression is a function of the feature row: one feature plus a bias.    *)
PowerFits == [level : {BaseTemp + 2}, hw : {0, 1}]
ForestFits == [feature : {<<"T2M", 1>>, <<"T2M", Lags>>, <<"RH2M", 0>>},
               bias : {0, 1}]
ThresholdVals == {R(BaseTemp + 2 - MaxNoise), R(BaseTemp + 2 + MaxNoise)}

(* y_test - preds for a held-out tail of n_test rows. *)
ResidualSets(n_test) ==
    IF n_test = 0 THEN {<<>>}
    ELSE {[i \in 1..n_test |-> R(0)],
          [i \in 1..n_test |->
              IF n_test % 2 = 1 THEN R(1) ELSE R(IF i % 2 = 1 THEN -1 ELSE 1)]}

(* sarimax_ok: fit_sarimax returns; prophet_avail: the import succeeded;    *)
(* prophet_ok: Prophet's fit and predict return.                            *)
PowerCaps == [sarimax_ok : BOOLEAN, prophet_avail : BOOLEAN,
              prophet_ok : BOOLEAN, fit : PowerFits]

(* res.get_forecast(steps): mean and 95% interval of horizon step i. *)
GetForecast(res, i) ==
    [mean |-> R(res.level), lower |-> R(res.level - res.hw),
     upper |-> R(res.level + res.hw)]

(* forecast_power.py:310-316 *)
forecast_sarimax(res, start_date, steps) ==
    [i \in 1..steps |->
        [date |-> start_date + i - 1,
         mean |-> GetForecast(res, i).mean,
         lower |-> GetForecast(res, i).lower,
         upper |-> GetForecast(res, i).upper]]

(* Prophet.make_future_dataframe(periods): the history dates and the        *)
(* `periods` days that follow the last of them.                             *)
make_future_dataframe(history_df, periods) ==
    {history_df[i].date : i \in 1..Len(history_df)}
        \cup {IndexMax(history_df) + k : k \in 1..periods}

(* forecast_power.py:319-330 *)
forecast_prophet(history_df, fit, start_date, steps) ==
    LET future == make_future_dataframe(history_df, steps)
        kept == SortedDates({d \in future :
                                d >= start_date /\ d <= start_date + steps - 1})
    IN  [i \in 1..Len(kept) |->
            [date |-> kept[i], mean |-> R(fit.level),
             lower |-> R(fit.level - fit.hw), upper |-> R(fit.level + fit.hw)]]

(* Bug variant: a failed first strategy ends the run although Prophet is there. *)
AfterSarimaxFailure_no_fallback(prophet_available) == "exit"

(* forecast_power.py:371-380: where the run goes when fit_sarimax raised. *)
AfterSarimaxFailure(prophet_available) ==
    IF prophet_available THEN "forecast" ELSE "exit"

(* The feature names: every column at every lag, lag 0 being "_curr". *)
Features(df_cols, lags) ==
    {<<df_cols[c], k>> : c \in 1..Len(df_cols), k \in 0..lags}

(* forecast_multivariate.py:95-104: Series.shift(lag) leaves the first      *)
(* `lag` rows missing.                                                      *)
create_lag_features(df, lags) ==
    [i \in 1..Len(df) |->
        [f \in Features(Cols, lags) |->
            IF f[2] = 0 THEN df[i][f[1]]
            ELSE IF i - f[2] >= 1 THEN df[i - f[2]][f[1]]
            ELSE NaN]]

(* Bug variant: the target is the same day's value, not the next day's. *)
TrainingTable_same_day(df, target_col, lags) ==
    LET features == create_lag_features(df, lags)
        data == [i \in 1..Len(df) |->
                    [date |-> df[i].date, x |-> features[i],
                     target |-> df[i][target_col]]]
        Complete(r) == r.target # NaN /\ \A f \in DOMAIN r.x : r.x[f] # NaN
    IN  SelectSeq(data, Complete)

(* forecast_multivariate.py:114-119: features and the next-day target side  *)
(* by side, rows holding a missing value dropped.                           *)
TrainingTable(df, target_col, lags) ==
    LET features == create_lag_features(df, lags)
        y == [i \in 1..Len(df) |->
                IF i + 1 <= Len(df) THEN df[i + 1][target_col] ELSE NaN]
        data == [i \in 1..Len(df) |->
                    [date |-> df[i].date, x |-> features[i], target |-> y[i]]]
        Complete(r) == r.target # NaN /\ \A f \in DOMAIN r.x : r.x[f] # NaN
    IN  SelectSeq(data, Complete)

(* train_test_split(test_size=0.2, shuffle=False): rows held out. *)
NTest(n) == (n + 4) \div 5

MultiCaps(df) ==
    [fit : ForestFits,
     residuals : ResidualSets(NTest(Len(TrainingTable(df, "T2M", Lags))))]

(* Bug variant: a lag the history is too short for repeats the newest value. *)
FeatureRow_newest(df_cols, hist, lags) ==
    [f \in Features(df_cols, lags) |->
        LET vals == [i \in 1..Len(hist) |-> hist[i][f[1]]]
        IN  IF f[2] = 0 THEN vals[Len(vals)]
            ELSE IF Len(vals) >= f[2] THEN vals[Len(vals) + 1 - f[2]]
            ELSE vals[Len(vals)]]

(* forecast_multivariate.py:142-154: the feature row of one step; lag 0 is  *)
(* the "_curr" feature.                                                     *)
FeatureRow(df_cols, hist, lags) ==
    [f \in Features(df_cols, lags) |->
        LET vals == [i \in 1..Len(hist) |-> hist[i][f[1]]]
        IN  IF f[2] = 0 THEN vals[Len(vals)]
            ELSE IF Len(vals) >= f[2] THEN vals[Len(vals) + 1 - f[2]]
            ELSE vals[1]]

(* model.predict(x) *)
Predict(model, x) == RAdd(x[model.feature], R(model.bias))

(* Bug variant: the appended row is dated like the last row of the history. *)
NewRow_last_date(hist, new_date, ypred) ==
    [date |-> hist[Len(hist)].date, T2M |-> ypred, RH2M |-> hist[Len(hist)].RH2M]

(* Bug variant: the exogenous column follows the prediction. *)
NewRow_from_prediction(hist, new_date, ypred) ==
    [date |-> new_date, T2M |-> ypred, RH2M |-> ypred]

(* forecast_multivariate.py:159-167: the row appended to the history. *)
NewRow(hist, new_date, ypred) ==
    [date |-> new_date, T2M |-> ypred, RH2M |-> hist[Len(hist)].RH2M]

(* Integer square root of a perfect square, and ndarray.std(). *)
Sqrt(q) ==
    <<CHOOSE r \in 0..q[1] : r * r = q[1], CHOOSE r \in 1..q[2] : r * r = q[2]>>
np_std(a) == Sqrt(np_var(a, 0))

(* np.random.normal(loc, scale): with scale 0 the mean itself, otherwise a  *)
(* value off the mean, on either side.                                      *)
NormalDraws(loc, scale) ==
    IF scale = R(0) THEN {loc}
    ELSE {RSub(loc, R(MaxNoise)), RAdd(loc, R(MaxNoise))}

RECURSIVE SimMatrices(_, _)
SimMatrices(means, scales) ==
    IF means = <<>> THEN {<<>>}
    ELSE {<<r>> \o rest :
            r \in [1..Nsim -> NormalDraws(Head(means), Head(scales))],
            rest \in SimMatrices(Tail(means), Tail(scales))}

(* Bug variant: a sample equal to the threshold counts as exceeding it. *)
Exceeds_or_equal(x, thr) == RLe(thr, x)

(* sims > threshold *)
Exceeds(x, thr) == RLt(thr, x)

RECURSIVE CountExceed(_, _)
CountExceed(samples, thr) ==
    IF samples = <<>> THEN 0
    ELSE (IF Exceeds(Head(samples), thr) THEN 1 ELSE 0)
            + CountExceed(Tail(samples), thr)

RECURSIVE IntSum(_)
IntSum(a) == IF a = <<>> THEN 0 ELSE Head(a) + IntSum(Tail(a))

(* Bug variant: the pooled probability is that of the first day alone. *)
OverallProb_first_day(sims, thr) ==
    Frac(CountExceed(sims[1], thr), Len(sims[1]))

(* sim_exceed.mean(axis=1) and sim_exceed.mean() *)
ProbPerDay(sims, thr) ==
    [i \in 1..Len(sims) |-> Frac(CountExceed(sims[i], thr), Len(sims[i]))]
OverallProb(sims, thr) ==
    Frac(IntSum([i \in 1..Len(sims) |-> CountExceed(sims[i], thr)]),
         IntSum([i \in 1..Len(sims) |-> Len(sims[i])]))

(* str(index.min().date()) for row 1 and str(index.max().date()) for the    *)
(* last row; the minimum of an empty index is NaT, whose date() is NaT.     *)
date_str(df, row) ==
    IF Len(df) = 0 THEN [str |-> "NaT"] ELSE [day |-> df[row].date]

(* forecast_power.py:409-417 and forecast_multivariate.py:236-244 *)
Summary(script, hist, fore, thr, prob) ==
    IF script = "power"
    THEN [location |-> <<"lat", "lon">>,
          hist_start |-> date_str(hist, 1),
          hist_end |-> date_str(hist, Len(hist)),
          forecast_start |-> date_str(fore, 1),
          forecast_end |-> date_str(fore, Len(fore)),
          threshold_c |-> json_dump(thr),
          overall_daily_exceed_prob |-> json_dump(prob)]
    ELSE [location |-> <<"lat", "lon">>,
          hist_start |-> date_str(hist, 1),
          hist_end |-> date_str(hist, Len(hist)),
          forecast_start |-> date_str(fore, 1),
          forecast_end |-> date_str(fore, Len(fore)),
          threshold |-> json_dump(thr),
          overall_daily_exceed_prob |-> json_dump(prob)]

RunStart ==
    /\ forecast_days \in 1..MaxForecastDays
    /\ threshold \in ThresholdVals
    /\ history = None
    /\ step = 0
    /\ results = None
    /\ df_fore = None
    /\ sim_matrix = None
    /\ prob_per_day = None
    /\ overall_prob = None
    /\ run = 1
    /\ first_run = None
    /\ tried = <<>>
    /\ train_table = None
    /\ feature_rows = None
    /\ summary_file = None
    /\ ExtIdle("none")
    /\ CompactIdle
    /\ ShrunkIdle
    /\ rain_mm_for_risk = None
    /\ mm_other = None
    /\ raw_score = None
    /\ raw_other = None
    /\ score = None
    /\ risk_label = "unset"

InitForecast ==
    /\ \/ /\ pipeline = "power"
          /\ pc = "fit"
          /\ \E n \in 1..MaxHist : df_hist = PowerTable(n)
          /\ caps \in PowerCaps
          /\ forecast_start \in (HistEnd + 1)..(HistEnd + MaxStartGap)
       \/ /\ pipeline = "multivariate"
          /\ pc = "mv_train"
          /\ \E n \in 1..MaxMultiHist : df_hist = MultiTable(n)
          /\ caps \in MultiCaps(df_hist)
          /\ forecast_start = HistEnd + 1
    /\ model_res = None
    /\ residuals = None
    /\ RunStart

Frame_fc == <<riskVars, compactVars, shrunkVars, inputVars, extVars>>

(* forecast_power.py:366-380 *)
FitSarimax ==
    /\ pc = "fit"
    /\ tried' = <<"sarimax">>
    /\ IF caps.sarimax_ok
       THEN model_res' = caps.fit /\ pc' = "forecast"
       ELSE /\ model_res' = None
            /\ pc' = AfterSarimaxFailure(caps.prophet_avail)
    /\ UNCHANGED <<Frame_fc, residuals, history, step, results, df_fore,
                   sim_matrix, prob_per_day, overall_prob, run, first_run,
                   train_table, feature_rows, summary_file>>

(* forecast_power.py:382-385; an exception out of forecast_prophet is not   *)
(* caught and ends the run.                                                 *)
Forecast ==
    /\ pc = "forecast"
    /\ IF model_res # None
       THEN /\ df_fore' = forecast_sarimax(model_res, forecast_start,
                                           forecast_days)
            /\ pc' = "simulate"
            /\ UNCHANGED tried
       ELSE /\ tried' = Append(tried, "prophet")
            /\ IF caps.prophet_ok
               THEN /\ df_fore' = forecast_prophet(df_hist, caps.fit,
                                                   forecast_start, forecast_days)
                    /\ pc' = "simulate"
               ELSE /\ pc' = "crashed"
                    /\ UNCHANGED df_fore
    /\ UNCHANGED <<Frame_fc, model_res, residuals, history, step, results,
                   sim_matrix, prob_per_day, overall_prob, run, first_run,
                   train_table, feature_rows, summary_file>>

(* forecast_power.py:387-406 *)
(* Bug variant: the whole interval width over 1.96. *)
ForecastStd_full_width(row) ==
    IF {"lower", "upper"} \subseteq DOMAIN row
    THEN RDiv(RSub(row.upper, row.lower), Frac(196, 100))
    ELSE Frac(3, 2)

(* forecast_power.py:387-391: the 'std' column of df_fore. *)
ForecastStd(row) ==
    IF {"lower", "upper"} \subseteq DOMAIN row
    THEN RDiv(RSub(row.upper, row.lower), RMul(R(2), Frac(196, 100)))
    ELSE Frac(3, 2)

SimulatePower ==
    /\ pc = "simulate"
    /\ LET means == [i \in 1..Len(df_fore) |-> df_fore[i].mean]
           std == [i \in 1..Len(df_fore) |-> ForecastStd(df_fore[i])]
       IN  /\ sim_std' = std
           /\ IF Len(df_fore) > 0
              THEN \E m \in SimMatrices(means, std) :
                       /\ sim_matrix' = m
                       /\ prob_per_day' = ProbPerDay(m, threshold)
                       /\ overall_prob' = OverallProb(m, threshold)
              ELSE /\ overall_prob' = NaN
                   /\ UNCHANGED <<sim_matrix, prob_per_day>>
    /\ pc' = "simulated"
    /\ UNCHANGED <<riskVars, compactVars, shrunkVars, inputVars, ioVars, model_res, residuals, history, step, results,
                   df_fore, run, first_run, runVars>>

(* forecast_multivariate.py:219 (train_model, 107-127); train_test_split    *)
(* raises when no row is left to train on.                                  *)
TrainModel ==
    /\ pc = "mv_train"
    /\ LET data == TrainingTable(df_hist, "T2M", Lags)
       IN  /\ train_table' = data
           /\ IF Len(data) - NTest(Len(data)) >= 1
              THEN /\ model_res' = caps.fit
                   /\ residuals' = caps.residuals
                   /\ pc' = "mv_forecast_start"
              ELSE /\ pc' = "crashed"
                   /\ UNCHANGED <<model_res, residuals>>
    /\ UNCHANGED <<Frame_fc, history, step, results, df_fore, sim_matrix,
                   prob_per_day, overall_prob, run, first_run, tried,
                   feature_rows, summary_file>>

(* forecast_multivariate.py:135-138 *)
IterStart ==
    /\ pc = "mv_forecast_start"
    /\ history' = df_hist
    /\ results' = <<>>
    /\ feature_rows' = <<>>
    /\ step' = 1
    /\ pc' = "mv_forecast"
    /\ UNCHANGED <<Frame_fc, model_res, residuals, df_fore, sim_matrix,
                   prob_per_day, overall_prob, run, first_run, tried,
                   train_table, summary_file>>

(* forecast_multivariate.py:139-168, one iteration of the loop *)
IterStep ==
    /\ pc = "mv_forecast"
    /\ step <= forecast_days
    /\ LET row == FeatureRow(Cols, history, Lags)
           ypred == Predict(model_res, row)
           new_date == IndexMax(df_hist) + step
       IN  /\ feature_rows' = Append(feature_rows, row)
           /\ history' = Append(history, NewRow(history, new_date, ypred))
           /\ results' = Append(results, [date |-> new_date, mean |-> ypred])
    /\ step' = step + 1
    /\ UNCHANGED <<pc, Frame_fc, model_res, residuals, df_fore, sim_matrix,
                   prob_per_day, overall_prob, run, first_run, tried,
                   train_table, summary_file>>

(* forecast_multivariate.py:169-170 *)
IterDone ==
    /\ pc = "mv_forecast"
    /\ step > forecast_days
    /\ df_fore' = results
    /\ pc' = "mv_simulate"
    /\ UNCHANGED <<Frame_fc, model_res, residuals, history, step, results,
                   sim_matrix, prob_per_day, overall_prob, run, first_run,
                   runVars>>

(* forecast_multivariate.py:173-183 and 225-228 *)
SimulateMultivariate ==
    /\ pc = "mv_simulate"
    /\ LET res_std == IF Len(residuals) = 0 THEN Frac(3, 2) ELSE np_std(residuals)
           means == [i \in 1..Len(df_fore) |-> df_fore[i].mean]
           scales == [i \in 1..Len(df_fore) |-> res_std]
       IN  /\ sim_std' = scales
           /\ \E m \in SimMatrices(means, scales) :
                   /\ sim_matrix' = m
                   /\ prob_per_day' = ProbPerDay(m, threshold)
                   /\ overall_prob' = OverallProb(m, threshold)
    /\ pc' = "simulated"
    /\ UNCHANGED <<riskVars, compactVars, shrunkVars, inputVars, ioVars, model_res, residuals, history, step, results,
                   df_fore, run, first_run, runVars>>

(* forecast_power.py:409-422 and forecast_multivariate.py:236-246 *)
WriteSummary ==
    /\ pc = "simulated"
    /\ summary_file' = Summary(pipeline, df_hist, df_fore, threshold,
                               overall_prob)
    /\ pc' = "written"
    /\ UNCHANGED <<Frame_fc, model_res, residuals, history, step, results,
                   df_fore, sim_matrix, prob_per_day, overall_prob, run,
                   first_run, tried, train_table, feature_rows>>

(* The script is started again on the same inputs. *)
Rerun ==
    /\ pc = "written"
    /\ run = 1
    /\ first_run' = [df_fore |-> df_fore, prob_per_day |-> prob_per_day,
                     overall_prob |-> overall_prob]
    /\ run' = 2
    /\ pc' = IF pipeline = "power" THEN "fit" ELSE "mv_train"
    /\ model_res' = None
    /\ residuals' = None
    /\ history' = None
    /\ step' = 0
    /\ results' = None
    /\ df_fore' = None
    /\ sim_matrix' = None
    /\ prob_per_day' = None
    /\ overall_prob' = None
    /\ tried' = <<>>
    /\ train_table' = None
    /\ feature_rows' = None
    /\ UNCHANGED <<Frame_fc, summary_file>>

NextForecast ==
    \/ FitSarimax
    \/ Forecast
    \/ SimulatePower
    \/ TrainModel
    \/ IterStart
    \/ IterStep
    \/ IterDone
    \/ SimulateMultivariate
    \/ WriteSummary

SpecForecast == InitForecast /\ [][NextForecast]_vars

(* The same, with the script run a second time on the same inputs. *)
NextRepeat == NextForecast \/ Rerun

SpecRepeat == InitForecast /\ [][NextRepeat]_vars

-----------------------------------------------------------------------------
(* iterative_forecast and simulate_uncertainty as functions of their        *)
(* arguments: any history, however short, any fitted model, any residuals.  *)

InitIter ==
    /\ pipeline = "multivariate"
    /\ pc = "mv_forecast_start"
    /\ \E n \in 1..MaxHist : df_hist = MultiTable(n)
    /\ caps = None
    /\ forecast_start = HistEnd + 1
    /\ model_res \in ForestFits
    /\ residuals \in ResidualSets(0) \cup ResidualSets(2)
    /\ RunStart

NextIter ==
    \/ IterStart
    \/ IterStep
    \/ IterDone
    \/ SimulateMultivariate

SpecIter == InitIter /\ [][NextIter]_vars

-----------------------------------------------------------------------------
(* train_model's table as a function of the history it is given: histories  *)
(* of any length, with missing values left in them.                         *)

(* MultiTable(n) with T2M missing on the rows t2m_holes and RH2M missing on *)
(* row rh_hole (0: on none).                                                *)
HoledTable(n, t2m_holes, rh_hole) ==
    [i \in 1..n |->
        [date |-> HistEnd - n + i,
         T2M |-> IF i \in t2m_holes THEN NaN ELSE R(BaseTemp + i),
         RH2M |-> IF i = rh_hole THEN NaN ELSE R(BaseRH + 2 * i)]]

InitLag ==
    /\ pipeline = "multivariate"
    /\ pc = "mv_train"
    /\ \E n \in 1..(Lags + MaxHist) :
         \E t2m_holes \in SUBSET (1..n) :
           \E rh_hole \in 0..n :
             df_hist = HoledTable(n, t2m_holes, rh_hole)
    /\ caps \in MultiCaps(df_hist)
    /\ forecast_start = HistEnd + 1
    /\ model_res = None
    /\ residuals = None
    /\ RunStart

NextLag == TrainModel

SpecLag == InitLag /\ [][NextLag]_vars

-----------------------------------------------------------------------------
(* POST /api/weather-verdict of backend/test_full_system.py (lines 63-141). *)
(* A field of the JSON body is absent, null, "", 0 or a non-empty text;    *)
(* the body itself may be JSON null instead of an object.                  *)

(* test_full_system.py:63-73: one record per future day, each a copy of    *)
(* the last row with its date moved on and formatted.                      *)
predict_future_weather(weather_data, days) ==
    LET last_row == weather_data[Len(weather_data)]
    IN  [i \in 1..days |-> [last_row EXCEPT !.date = [day |-> last_row.date + i]]]

(* test_full_system.py:83-88: all([country, city, date, time]) *)
AllFields_any(data) ==
    \E k \in {"country", "city", "date", "time"} : data[k] = "text"

AllFields(data) ==
    \A k \in {"country", "city", "date", "time"} : data[k] = "text"

InitApi ==
    /\ pc = "api_request"
    /\ request \in {[json |-> "null"]} \cup
                   [json : {"object"},
                    country : {"absent", "null", "empty", "zero", "text"},
                    city : {"absent", "null", "empty", "zero", "text"},
                    date : {"absent", "null", "empty", "zero", "text"},
                    time : {"absent", "null", "empty", "zero", "text"}]
    /\ calls = <<>>
    /\ response = None
    /\ ExtIdle("api")
    /\ CompactIdle
    /\ ShrunkIdle
    /\ ForecastIdle
    /\ rain_mm_for_risk = None
    /\ mm_other = None
    /\ raw_score = None
    /\ raw_other = None
    /\ score = None
    /\ risk_label = "unset"

(* test_full_system.py:79-141.  calls lists the helpers the handler called *)
(* and ends with "except" when the except clause at line 137 ran.          *)
weather_verdict_api ==
    /\ pc = "api_request"
    /\ \E genai_ok \in BOOLEAN :
         IF request.json # "object"
         THEN \* data is None: data.get raises AttributeError
              /\ calls' = <<"except">>
              /\ response' = [status_code |-> 500, status |-> "error"]
         ELSE IF ~AllFields(request)
         THEN /\ calls' = <<>>
              /\ response' = [status_code |-> 400, status |-> "error"]
         ELSE LET weather_data ==
                      [i \in 1..5 |->
                          [date |-> Timestamp(2023, 10, 1) + i - 1,
                           T2M |-> <<Frac(45, 2), R(23), R(21), R(24), R(22)>>[i],
                           T2M_MAX |-> <<R(25), R(26), R(24), R(27), R(25)>>[i],
                           T2M_MIN |-> <<R(20), R(21), R(19), R(22), R(20)>>[i],
                           RH2M |-> <<R(60), R(62), R(59), R(61), R(60)>>[i],
                           WS2M |-> <<R(5), R(6), R(4), R(7), R(5)>>[i],
                           PRECTOTCORR |->
                               <<R(0), Frac(1, 5), R(0), Frac(1, 10), R(0)>>[i]]]
                  future_weather == predict_future_weather(weather_data, 3)
              IN  IF genai_ok
                  THEN /\ calls' = <<"predict_future_weather",
                                     "get_weather_verdict">>
                       /\ response' =
                            [status_code |-> 200, status |-> "success",
                             location |-> "city, country",
                             date |-> request.date, time |-> request.time,
                             verdict |-> "text",
                             predicted_weather |-> future_weather]
                  ELSE \* generate_content raises
                       /\ calls' = <<"predict_future_weather",
                                     "get_weather_verdict", "except">>
                       /\ response' = [status_code |-> 500, status |-> "error"]
    /\ pc' = "api_responded"
    /\ UNCHANGED <<sim_std, request, json_out, df_temp, df_wind, compact, stdout,
                   call_site, provider, attempts, http_status, fetched,
                   riskVars, compactVars, shrunkVars, fcVars>>

SpecApi == InitApi /\ [][weather_verdict_api]_vars

-----------------------------------------------------------------------------
(* Fetching the historical series: _retry_session and the fetch functions  *)
(* of both scripts, and what main does with the frame before any fit.      *)
(* A provider value is a number, the sentinel -999, or None (JSON null, or *)
(* an empty CSV cell).  One column stands for every requested parameter.   *)

MaxRaw == 3             \* days the provider may hold

ProviderSeries ==
    {LET ds == SortedDates(DOMAIN f)
     IN  [i \in 1..Len(ds) |->
             [date |-> Timestamp(StartYear, 1, 1) + ds[i] - 1,
              value |-> f[ds[i]]]] :
        f \in UNION {[S -> {None, R(-999), R(20), R(300)}] :
                        S \in SUBSET (1..MaxRaw)}}

(* forecast_power.py:143-161: rows of the JSON response; None and values   *)
(* at or below -900 become NaN.                                            *)
fetch_power_point(data) ==
    [i \in 1..Len(data) |->
        [date |-> data[i].date,
         value |-> IF data[i].value = None THEN NaN
                   ELSE IF RLe(data[i].value, R(-900)) THEN NaN
                   ELSE data[i].value]]

(* forecast_multivariate.py:64-92: rows of the CSV response; an empty cell *)
(* is NaN and every number is kept as it is.                               *)
fetch_power_csv(data) ==
    [i \in 1..Len(data) |->
        [date |-> data[i].date,
         value |-> IF data[i].value = None THEN NaN ELSE data[i].value]]

(* forecast_multivariate.py:211-214: reindex on every day from the first   *)
(* to the last, then forward fill, then backward fill.                     *)
ReindexFill(df) ==
    LET lo == df[1].date
        n == df[Len(df)].date - lo + 1
        re == [k \in 1..n |->
                  [date |-> lo + k - 1,
                   value |-> IF InIndex(df, lo + k - 1)
                             THEN Loc(df, lo + k - 1) ELSE NaN]]
        Before(a, k) == {j \in 1..k : a[j].value # NaN}
        After(a, k) == {j \in k..n : a[j].value # NaN}
        ff == [k \in 1..n |->
                  IF Before(re, k) = {} THEN re[k]
                  ELSE LET j == CHOOSE x \in Before(re, k) :
                                    \A z \in Before(re, k) : z <= x
                       IN  [re[k] EXCEPT !.value = re[j].value]]
    IN  [k \in 1..n |->
            IF After(ff, k) = {} THEN ff[k]
            ELSE LET j == CHOOSE x \in After(ff, k) :
                              \A z \in After(ff, k) : x <= z
                 IN  [ff[k] EXCEPT !.value = ff[j].value]]

InitFetch ==
    /\ pc = "fetch_request"
    /\ call_site \in {"power_main", "power_compact", "multivariate"}
    /\ provider \in ProviderSeries
    /\ attempts = 0
    /\ http_status = 0
    /\ fetched = None
    /\ ExtIdle("fetch")
    /\ CompactIdle
    /\ ShrunkIdle
    /\ ForecastIdle
    /\ rain_mm_for_risk = None
    /\ mm_other = None
    /\ raw_score = None
    /\ raw_other = None
    /\ score = None
    /\ risk_label = "unset"

(* One HTTP request of _SESSION.get (forecast_power.py:46-61 and 93,       *)
(* forecast_multivariate.py:41-49 and 64).  Retry(total=3) allows three    *)
(* retries after the first request, each only after a status of the        *)
(* forcelist; with raise_on_status=False the last response is returned.    *)
SessionGet ==
    /\ pc = "fetch_request"
    /\ \E status \in {200, 404, 503} :
         LET total == 3
             status_forcelist == {429, 500, 502, 503, 504}
         IN  /\ http_status' = status
             /\ attempts' = attempts + 1
             /\ pc' = IF status \in status_forcelist /\ attempts < total
                      THEN "fetch_request" ELSE "fetch_response"
    /\ UNCHANGED <<sim_std, call_site, provider, fetched, json_out, df_temp, df_wind,
                   compact, stdout, request, calls, response,
                   riskVars, compactVars, shrunkVars, fcVars>>

(* r.raise_for_status(), the parse, and the caller's preparation:          *)
(* forecast_power.py:94-161 and 351-355 (main), 459-474 (compact block,    *)
(* where an exception leaves df_prec = None),                              *)
(* forecast_multivariate.py:65-92 and 202-214.                             *)
FetchReturn ==
    /\ pc = "fetch_response"
    /\ IF http_status >= 400 \/ Len(provider) = 0
       THEN \* HTTPError, or no row to build a frame from
            /\ pc' = IF call_site = "power_compact" THEN "fetch_done" ELSE "fatal"
            /\ UNCHANGED <<sim_std, fetched, df_hist, df_prec>>
       ELSE /\ pc' = "fetch_done"
            /\ fetched' = IF call_site = "multivariate"
                          THEN fetch_power_csv(provider)
                          ELSE fetch_power_point(provider)
            /\ LET dropna == SelectSeq(fetched', LAMBDA r : r.value # NaN)
               IN  CASE call_site = "power_main" ->
                          /\ df_hist' =
                               IF Len(dropna) > 0 /\
                                  RLt(R(200), np_mean(Values(dropna)))
                               THEN [i \in 1..Len(dropna) |->
                                        [dropna[i] EXCEPT !.value =
                                            RSub(@, Frac(27315, 100))]]
                               ELSE dropna
                          /\ UNCHANGED df_prec
                    [] call_site = "power_compact" ->
                          /\ df_prec' = dropna
                          /\ UNCHANGED df_hist
                    [] OTHER ->
                          /\ df_hist' = ReindexFill(fetched')
                          /\ UNCHANGED df_prec
    /\ UNCHANGED <<sim_std, call_site, provider, attempts, http_status, json_out,
                   df_temp, df_wind, compact, stdout, request, calls, response,
                   riskVars, shrunkVars, tomorrow, prec_sample, hist_avg_prec,
                   forecast_prec, stats_prec, prior_prec_var, recent_prec_var,
                   prior_mean_prec, weight_prior, adjusted_prec, display_prec,
                   pipeline, caps, forecast_start, forecast_days, threshold,
                   model_res, residuals, history, step, results, df_fore,
                   sim_matrix, prob_per_day, overall_prob, run, first_run,
                   runVars>>

NextFetch == SessionGet \/ FetchReturn

SpecFetch == InitFetch /\ [][NextFetch]_vars

-----------------------------------------------------------------------------
(* fit_sarimax (forecast_power.py:291-307) as a function of the series and *)
(* of what the libraries do: whether statsmodels and pmdarima were         *)
(* imported, whether auto_arima raises, the orders it returns, and whether *)
(* SARIMAX(...).fit raises.  m = 0 stands for "no search was started".     *)

(* Bug variant: a failed or unavailable search ends the fit with an error. *)
fit_sarimax_search_only(series, env) ==
    LET m == IF Len(series) > 365 * 2 THEN 365 ELSE 7
    IN  IF ~env.sarimax_avail \/ ~(env.pm_avail /\ env.auto_ok) \/ ~env.fit_ok
        THEN [status |-> "raised", order |-> <<>>, seasonal_order |-> <<>>,
              m |-> IF env.sarimax_avail /\ env.pm_avail THEN m ELSE 0]
        ELSE [status |-> "fitted", order |-> env.auto_order,
              seasonal_order |-> <<1, 0, 1, m>>, m |-> m]

fit_sarimax(series, env) ==
    LET m == IF Len(series) > 365 * 2 THEN 365 ELSE 7
        searched == env.pm_avail /\ env.auto_ok
    IN  IF ~env.sarimax_avail
        THEN [status |-> "raised", order |-> <<>>, seasonal_order |-> <<>>,
              m |-> 0]
        ELSE IF ~env.fit_ok
        THEN [status |-> "raised", order |-> <<>>, seasonal_order |-> <<>>,
              m |-> IF env.pm_avail THEN m ELSE 0]
        ELSE [status |-> "fitted",
              order |-> IF searched THEN env.auto_order ELSE <<1, 0, 0>>,
              seasonal_order |-> IF searched THEN <<1, 0, 1, m>>
                                 ELSE <<0, 0, 0, 0>>,
              m |-> IF env.pm_avail THEN m ELSE 0]

InitFit ==
    /\ pipeline = "power"
    /\ pc = "fit_call"
    /\ \E n \in (1..MaxHist) \cup ((365 * 2 - MaxHist)..(365 * 2 + MaxHist)) :
         df_hist = PowerTable(n)
    /\ caps \in [sarimax_avail : BOOLEAN, pm_avail : BOOLEAN,
                 auto_ok : BOOLEAN, fit_ok : BOOLEAN,
                 auto_order : {<<1, 0, 0>>, <<2, 1, 3>>}]
    /\ forecast_start = HistEnd + 1
    /\ model_res = None
    /\ residuals = None
    /\ RunStart

ApplyFitSarimax ==
    /\ pc = "fit_call"
    /\ model_res' = fit_sarimax(df_hist, caps)
    /\ pc' = "fit_return"
    /\ UNCHANGED <<Frame_fc, residuals, history, step, results, df_fore,
                   sim_matrix, prob_per_day, overall_prob, run, first_run,
                   runVars>>

SpecFit == InitFit /\ [][ApplyFitSarimax]_vars

-----------------------------------------------------------------------------
(* The uncertainty simulation of both scripts: the full runs of main(), and *)
(* simulate_uncertainty called with any residuals, the empty set included   *)
(* (forecast_power.py:387-405, forecast_multivariate.py:173-183).           *)

SpecSim == (InitForecast \/ InitIter) /\ [][NextForecast]_vars

\* C1: rain_score is non-decreasing: whenever a <= b the score of a is at
\* most the score of b; rain_score(0) = 0, and rain_score(mm) = 100 for
\* every mm >= 20.
C1_RainScoreMonotone ==
    pc \in {"risk_ready", "risk_done"} =>
        /\ rain_mm_for_risk # None => RLe(raw_score, raw_other)
        /\ rain_mm_for_risk = R(0) => raw_score = R(0)
        /\ RLe(R(20), mm_other) => raw_other = R(100)

(* Scores computed for a pair straddling the band edge at 5 mm. *)
C1_Witness ==
    /\ pc = "risk_ready"
    /\ rain_mm_for_risk = Hundredths(499)
    /\ mm_other = Hundredths(500)
    /\ RLt(raw_score, raw_other)

\* C2: the emitted climate_risk_score is an integer in 0..100 and risk_label
\* is determined by it: High Risk when score >= 70, Medium Risk when
\* 40 <= score < 70, Low Risk otherwise; 0.5 mm gives 15 and Low Risk, 3 mm
\* gives a score in 40..69 and Medium Risk, 25 mm gives 100 and High Risk.
C2_ScoreRangeAndLabel ==
    pc = "risk_done" =>
        /\ score \in 0..100
        /\ score >= 70 => risk_label = "High Risk"
        /\ (score >= 40 /\ score < 70) => risk_label = "Medium Risk"
        /\ score < 40 => risk_label = "Low Risk"
        /\ rain_mm_for_risk = Hundredths(50) =>
                score = 15 /\ risk_label = "Low Risk"
        /\ rain_mm_for_risk = Hundredths(300) =>
                score >= 40 /\ score < 70 /\ risk_label = "Medium Risk"
        /\ rain_mm_for_risk = Hundredths(2500) =>
                score = 100 /\ risk_label = "High Risk"

(* A score exactly at the High threshold has been labelled. *)
C2_Witness ==
    /\ pc = "risk_done"
    /\ rain_mm_for_risk = Hundredths(500)
    /\ score = 70
    /\ risk_label = "High Risk"

\* C3: after rounding, the label follows the precipitation bands: mm < 1
\* gives Low Risk, every 1 <= mm < 5 gives Medium Risk, every mm > 5 gives
\* High Risk.
C3_LabelFollowsBands ==
    (pc = "risk_done" /\ rain_mm_for_risk # None) =>
        /\ RLt(rain_mm_for_risk, R(1)) => risk_label = "Low Risk"
        /\ (RLe(R(1), rain_mm_for_risk) /\ RLt(rain_mm_for_risk, R(5)))
                => risk_label = "Medium Risk"
        /\ RLt(R(5), rain_mm_for_risk) => risk_label = "High Risk"

AfterShrink == pc \in {"compact_display", "compact_risk", "risk_ready", "risk_done"}
AfterDisplay == pc \in {"compact_risk", "risk_ready", "risk_done"}

\* C4: whenever a displayed precipitation value exists it is >= 0, and when
\* the climatology statistics provide p25 and p75 it lies within
\* [min(p25, p75), max(p25, p75)].
C4_DisplayWithinBounds ==
    (AfterDisplay /\ display_prec # None) =>
        /\ RLe(R(0), display_prec)
        /\ stats_prec # None =>
            /\ RLe(RMin(stats_prec.p25, stats_prec.p75), display_prec)
            /\ RLe(display_prec, RMax(stats_prec.p25, stats_prec.p75))

(* A blended value above p75 has been pulled down to p75. *)
C4_Witness ==
    /\ AfterDisplay
    /\ stats_prec # None
    /\ adjusted_prec # None
    /\ RLt(stats_prec.p75, adjusted_prec)
    /\ display_prec = stats_prec.p75

\* C5: with f and the prior mean p available and both variances positive,
\* the weight on the prior is clamp(v_f / (v_f + v_p), 0.3, 0.9), so it lies
\* in [0.3, 0.9], and the blended value is w*p + (1-w)*f clamped at zero.
C5_WeightAndBlend ==
    (/\ AfterShrink
     /\ forecast_prec # None /\ prior_mean_prec # None
     /\ recent_prec_var # None /\ prior_prec_var # None
     /\ RLt(R(0), recent_prec_var) /\ RLt(R(0), prior_prec_var)) =>
        LET ratio == RDiv(recent_prec_var, RAdd(recent_prec_var, prior_prec_var))
            w == IF RLt(ratio, Frac(3, 10)) THEN Frac(3, 10)
                 ELSE IF RLt(Frac(9, 10), ratio) THEN Frac(9, 10)
                 ELSE ratio
            blend == RAdd(RMul(w, prior_mean_prec),
                          RMul(RSub(R(1), w), forecast_prec))
        IN  /\ weight_prior = w
            /\ RLe(Frac(3, 10), weight_prior)
            /\ RLe(weight_prior, Frac(9, 10))
            /\ adjusted_prec = IF RLt(blend, R(0)) THEN R(0) ELSE blend

(* A ratio below 0.3 has been clamped up and the blend moved off the forecast. *)
C5_Witness ==
    /\ AfterShrink
    /\ weight_prior = Frac(3, 10)
    /\ RLt(RDiv(recent_prec_var, RAdd(recent_prec_var, prior_prec_var)),
           Frac(3, 10))
    /\ adjusted_prec # forecast_prec

\* C6: if exactly one of the forecast f and the prior mean p is available,
\* the blended value is that one value: f missing and p available gives p,
\* p missing and f available gives f.
C6_SingleSourcePassthrough ==
    pc = "shrunk_returned" =>
        /\ (shrunk_args.forecast_val = None /\ shrunk_args.prior_mean # None)
                => shrunk = shrunk_args.prior_mean
        /\ (shrunk_args.prior_mean = None /\ shrunk_args.forecast_val # None)
                => shrunk = shrunk_args.forecast_val

(* compute_shrunk has returned the prior for a missing forecast. *)
C6_Witness ==
    /\ pc = "shrunk_returned"
    /\ shrunk_args.forecast_val = None
    /\ shrunk_args.prior_mean = R(2)
    /\ shrunk = R(2)

\* C7: when the day-window holds zero matching historical days,
\* historical_stats is None and the blended value (forecast_adjusted and
\* the displayed value) equals the raw forecast unmodified.
C7_EmptyWindowKeepsRawForecast ==
    (/\ AfterDisplay
     /\ df_prec # None /\ Len(df_prec) > 0
     /\ Len(prec_sample) = 0) =>
        /\ stats_prec = None
        /\ adjusted_prec = forecast_prec
        /\ display_prec = forecast_prec

\* C7 (amended): when the day-window holds zero matching historical days,
\* historical_stats is None, the prior mean is the full-series mean, the
\* blended value is the inverse-variance posterior mean of the raw forecast
\* and that mean (prior variance 1.0; forecast variance 1.0 unless the recent
\* sample variance is positive), and the displayed value is the blended
\* value clamped into [0, full-series mean].
C7_EmptyWindowShrinksToSeriesMean ==
    (/\ AfterDisplay
     /\ df_prec # None /\ Len(df_prec) > 0
     /\ Len(prec_sample) = 0) =>
        LET avg == RDiv(SeqSum(Values(df_prec)), R(Len(df_prec)))
            vf == IF recent_prec_var # None /\ RLt(R(0), recent_prec_var)
                  THEN recent_prec_var ELSE R(1)
            post == RDiv(RAdd(RDiv(forecast_prec, vf), avg),
                         RAdd(RDiv(R(1), vf), R(1)))
        IN  /\ stats_prec = None
            /\ prior_mean_prec = avg
            /\ adjusted_prec = RMax(R(0), post)
            /\ display_prec = RMax(R(0), RMin(adjusted_prec, avg))

(* An empty window whose blended value differs from the raw forecast. *)
C7_Witness ==
    /\ pc = "risk_done"
    /\ df_prec # None /\ Len(df_prec) > 0
    /\ Len(prec_sample) = 0
    /\ adjusted_prec # forecast_prec
    /\ display_prec # forecast_prec

PathBuilt == pc \in {"simulate", "mv_simulate", "simulated", "written"}

\* C8: the forecast path of each forecaster (forecast_sarimax,
\* forecast_prophet, iterative_forecast) has exactly forecast_days entries
\* with contiguous daily dates starting at forecast_start, for every
\* forecast_days >= 1 and forecast_start after the last historical date.
C8_PathCoversHorizon ==
    (PathBuilt /\ forecast_days >= 1 /\ forecast_start > IndexMax(df_hist)) =>
        /\ Len(df_fore) = forecast_days
        /\ \A i \in 1..Len(df_fore) : df_fore[i].date = forecast_start + i - 1

\* C9: the per-day exceedance probability is the fraction of that day's
\* samples strictly greater than the threshold; it and the pooled
\* probability lie in [0, 1]; both are 1 when the threshold is below every
\* simulated value and 0 when it is at or above every simulated value.
C9_ExceedanceInUnitInterval ==
    (pc = "simulated" /\ Len(df_fore) > 0) =>
        LET Days == 1..Len(sim_matrix)
            Above(i) == {k \in 1..Nsim : RLt(threshold, sim_matrix[i][k])}
        IN  /\ Len(prob_per_day) = Len(df_fore)
            /\ \A i \in Days :
                /\ RLe(R(0), prob_per_day[i]) /\ RLe(prob_per_day[i], R(1))
                /\ prob_per_day[i] = Frac(Cardinality(Above(i)), Nsim)
            /\ RLe(R(0), overall_prob) /\ RLe(overall_prob, R(1))
            /\ (\A i \in Days : Above(i) = 1..Nsim) =>
                    /\ overall_prob = R(1)
                    /\ \A i \in Days : prob_per_day[i] = R(1)
            /\ (\A i \in Days : Above(i) = {}) =>
                    /\ overall_prob = R(0)
                    /\ \A i \in Days : prob_per_day[i] = R(0)

(* Every sample is at or below the threshold, one of them exactly at it. *)
C9_Witness ==
    /\ pc = "simulated"
    /\ Len(df_fore) > 0
    /\ \A i \in 1..Len(sim_matrix) : \A k \in 1..Nsim :
            RLe(sim_matrix[i][k], threshold)
    /\ \E i \in 1..Len(sim_matrix) : \E k \in 1..Nsim :
            sim_matrix[i][k] = threshold
    /\ overall_prob = R(0)

\* C10: two runs with the same seed and identical inputs produce identical
\* forecast paths and identical per-day and pooled exceedance
\* probabilities: every stochastic step draws from the one configured seed.
C10_RunsAgree ==
    (run = 2 /\ pc = "simulated") =>
        /\ df_fore = first_run.df_fore
        /\ prob_per_day = first_run.prob_per_day
        /\ overall_prob = first_run.overall_prob

\* C11: the machine-readable summary object has all of its keys, and every
\* numeric field whose source series could not be fetched is null: the
\* temperature fields without a temperature series, the wind fields
\* without a wind series, and without a precipitation series every
\* precipitation-derived field, the climate risk score included.
C11_UnavailableFieldsNull ==
    pc = "compact_emitted" =>
        LET null == [json |-> "null"]
        IN  /\ DOMAIN compact =
                 {"location", "forecast_date", "forecast", "historical_avg",
                  "historical_stats", "forecast_adjusted", "forecast_raw",
                  "climate_risk_score", "risk_label", "dominant_factor",
                  "sparkline"}
            /\ \A k \in {"forecast", "historical_avg", "historical_stats"} :
                 DOMAIN compact[k] = {"temp_c", "precip_mm", "wind_m_s"}
            /\ df_temp = None =>
                 \A k \in {"forecast", "historical_avg", "historical_stats"} :
                     compact[k].temp_c = null
            /\ df_wind = None =>
                 \A k \in {"forecast", "historical_avg", "historical_stats"} :
                     compact[k].wind_m_s = null
            /\ df_prec = None =>
                 /\ \A k \in {"forecast", "historical_avg", "historical_stats",
                              "forecast_adjusted", "forecast_raw"} :
                        compact[k].precip_mm = null
                 /\ compact.climate_risk_score = null

C13_ExogenousPersistence ==
    (pipeline = "multivariate" /\ feature_rows # None) =>
        LET n == Len(df_hist)
            observed == {df_hist[i].RH2M : i \in 1..n}
        IN  /\ Len(history) = n + Len(results)
            /\ Len(feature_rows) = Len(results)
            /\ \A k \in 1..Len(results) :
                /\ history[n + k].date = IndexMax(df_hist) + k
                /\ history[n + k].T2M = results[k].mean
                /\ history[n + k].RH2M = df_hist[n].RH2M
                /\ results[k].mean = Predict(model_res, feature_rows[k])
                /\ feature_rows[k][<<"RH2M", 0>>] = df_hist[n].RH2M
                /\ \A j \in 1..Lags : feature_rows[k][<<"RH2M", j>>] \in observed
                /\ k > 1 => feature_rows[k][<<"T2M", 1>>] = results[k - 1].mean

(* Two steps done by a model that reads the newest target value, so the     *)
(* second prediction builds on the first.                                   *)
C13_Witness ==
    /\ pipeline = "multivariate"
    /\ pc = "mv_simulate"
    /\ Len(results) >= 2
    /\ model_res.feature = <<"T2M", 1>>
    /\ model_res.bias = 1
    /\ results[2].mean = RAdd(results[1].mean, R(1))
    /\ history[Len(history)].RH2M = df_hist[Len(df_hist)].RH2M

\* C14: in both pipelines every provider sentinel is turned into a missing
\* value before anything reads it: the frame a fetch returns, and the frame
\* handed to the fill step, the statistics or the fit, hold no value at or
\* below -900.
C14_NoSentinelReachesFit ==
    pc = "fetch_done" =>
        \A df \in {fetched, df_hist, df_prec} :
            \A i \in 1..Len(df) :
                df[i].value = NaN \/ RLt(R(-900), df[i].value)

\* C15: when the forecast path has zero entries the run still completes: no
\* simulation is performed, the pooled exceedance probability is
\* not-a-number internally and is null in the persisted summary.
C15_EmptyHorizonNull ==
    (pipeline = "power" /\ PathBuilt /\ Len(df_fore) = 0) =>
        /\ pc \in {"simulated", "written"} =>
                (overall_prob = NaN /\ sim_matrix = None)
        /\ pc = "written" =>
                summary_file.overall_daily_exceed_prob = [json |-> "null"]

\* C19: in iterative_forecast the lag-k feature of every variable is the
\* k-th most recent value of the (possibly extended) history when it has at
\* least k rows, and the oldest available value when it has fewer.
C19_ShortHistoryLagFill ==
    (pipeline = "multivariate" /\ feature_rows # None) =>
        \A k \in 1..Len(feature_rows) :
            LET H == SubSeq(history, 1, Len(df_hist) + k - 1)
            IN  \A c \in {"T2M", "RH2M"} : \A j \in 1..Lags :
                    feature_rows[k][<<c, j>>] =
                        IF Len(H) >= j THEN H[Len(H) + 1 - j][c] ELSE H[1][c]

(* A history of more than one row, shorter than the deepest lag: that lag   *)
(* holds the oldest value, which is not the newest.                         *)
C19_Witness ==
    /\ pipeline = "multivariate"
    /\ feature_rows # None
    /\ Len(feature_rows) >= 1
    /\ Len(df_hist) > 1
    /\ Len(df_hist) < Lags
    /\ feature_rows[1][<<"T2M", Lags>>] = df_hist[1].T2M
    /\ feature_rows[1][<<"T2M", Lags>>] # df_hist[Len(df_hist)].T2M

\* C20: the training table holds exactly the dates whose lags 1..L of every
\* variable, current-day values and next-day target are all non-missing,
\* and it is empty if and only if fewer than L+1 historical days exist: a
\* gap-free history of exactly L+1 days yields at least one training row.
C20_TableEmptyBelowLPlus1 ==
    (pipeline = "multivariate" /\ pc \in {"mv_forecast_start", "crashed"}) =>
        LET n == Len(df_hist)
            Present(i, c) == i >= 1 /\ i <= n /\ df_hist[i][c] # NaN
            RowComplete(i) ==
                /\ Present(i + 1, "T2M")
                /\ \A c \in {"T2M", "RH2M"} : \A k \in 0..Lags : Present(i - k, c)
            GapFree == \A i \in 1..n : Present(i, "T2M") /\ Present(i, "RH2M")
        IN  /\ {train_table[j].date : j \in 1..Len(train_table)}
                    = {df_hist[i].date : i \in {r \in 1..n : RowComplete(r)}}
            /\ GapFree => (Len(train_table) = 0 <=> n < Lags + 1)

\* C20 (amended): the training table holds exactly the dates whose lags
\* 1..L of every variable, current-day values and next-day target are all
\* non-missing; for a gap-free history it has max(0, n - L - 1) rows, so it
\* is empty if and only if fewer than L+2 historical days exist, and exactly
\* L+2 days yield one training row.
C20_TableEmptyBelowLPlus2 ==
    (pipeline = "multivariate" /\ pc \in {"mv_forecast_start", "crashed"}) =>
        LET n == Len(df_hist)
            Present(i, c) == i >= 1 /\ i <= n /\ df_hist[i][c] # NaN
            RowComplete(i) ==
                /\ Present(i + 1, "T2M")
                /\ \A c \in {"T2M", "RH2M"} : \A k \in 0..Lags : Present(i - k, c)
            GapFree == \A i \in 1..n : Present(i, "T2M") /\ Present(i, "RH2M")
        IN  /\ {train_table[j].date : j \in 1..Len(train_table)}
                    = {df_hist[i].date : i \in {r \in 1..n : RowComplete(r)}}
            /\ GapFree =>
                /\ Len(train_table) = 0 <=> n < Lags + 2
                /\ n >= Lags + 2 => Len(train_table) = n - Lags - 1

(* A gap-free history of exactly L+2 days has given one training row, and a *)
(* history of L+1 days none.                                                *)
C20_Witness ==
    /\ pipeline = "multivariate"
    /\ pc = "crashed"
    /\ Len(df_hist) = Lags + 2
    /\ \A i \in 1..Len(df_hist) : df_hist[i].T2M # NaN /\ df_hist[i].RH2M # NaN
    /\ Len(train_table) = 1
    /\ train_table[1].date = df_hist[Lags + 1].date

\* C16: in JSON output mode, once the compact block has ended, stdout holds
\* the JSON summary object: never a text printed in its place.
C16_JsonModeStdoutIsJson ==
    (json_out /\ pc \in {"compact_emitted", "compact_failed"}) =>
        stdout.kind = "json"

\* C17: a fetch sends at most 3 requests, sends another one only after a
\* transient status (429, 500, 502, 503, 504), and when it ends without a
\* successful response the run ends with a fatal error.
C17_BoundedRetriesThenFatal ==
    /\ attempts <= 3
    /\ (pc = "fetch_request" /\ attempts > 0) =>
           http_status \in {429, 500, 502, 503, 504}
    /\ (pc \in {"fetch_done", "fatal"} /\ http_status # 200) => pc = "fatal"

\* C18: POST /api/weather-verdict with a JSON object in which country,
\* city, date or time is missing or empty is answered 400, status 'error',
\* with no prediction computed and no call to the generative-AI service;
\* with all four present it is answered 200, status 'success', with
\* exactly 3 predicted_weather records, each the last observed row on the
\* next three days; whenever the except clause ran the answer is 500,
\* status 'error'.
C18_VerdictResponses ==
    pc = "api_responded" =>
        LET raised == Len(calls) > 0 /\ calls[Len(calls)] = "except"
        IN  /\ raised => (response.status_code = 500 /\ response.status = "error")
            /\ request.json # "object" => raised
            /\ (request.json = "object" /\
                \E k \in {"country", "city", "date", "time"} :
                    request[k] \in {"absent", "null", "empty"}) =>
                   /\ response.status_code = 400
                   /\ response.status = "error"
                   /\ calls = <<>>
            /\ (request.json = "object" /\ ~raised /\
                \A k \in {"country", "city", "date", "time"} :
                    request[k] = "text") =>
                   /\ response.status_code = 200
                   /\ response.status = "success"
                   /\ Len(response.predicted_weather) = 3
                   /\ \A i \in 1..3 :
                        /\ response.predicted_weather[i].date =
                             [day |-> Timestamp(2023, 10, 5) + i]
                        /\ response.predicted_weather[i].T2M = R(22)
                   /\ calls = <<"predict_future_weather", "get_weather_verdict">>

(* A complete request answered with three predicted days. *)
C18_Witness ==
    /\ pc = "api_responded"
    /\ request.json = "object"
    /\ response.status_code = 200
    /\ Len(response.predicted_weather) = 3
    /\ calls = <<"predict_future_weather", "get_weather_verdict">>

\* C21: sample_day_window returns exactly the observations within
\* BufferDays days of the target month/day in each year from StartYear to
\* EndYear, each once and in date order; in a year where the target date
\* itself does not exist (Feb 29 of a non-leap year) only that date is
\* skipped and the days before and after it are still collected.
C21_WindowCollectsEveryValidDay ==
    (pc = "compact_forecast" /\ df_prec # None) =>
        LET Window(y) ==
                IF ValidDate(y, tomorrow.month, tomorrow.day)
                THEN {Anchor(y, tomorrow) + off : off \in -BufferDays..BufferDays}
                ELSE {Anchor(y, tomorrow) + off : off \in -BufferDays..-1} \cup
                     {Anchor(y, tomorrow) + off - 1 : off \in 1..BufferDays}
            InWindow(r) == \E y \in StartYear..EndYear : r.date \in Window(y)
        IN  prec_sample = Values(SelectSeq(df_prec, InWindow))

\* C22: the historical average is the mean of the day-window sample when
\* the sample is non-empty, otherwise the mean of the whole series when the
\* series is non-empty, otherwise null; the prior mean of the shrinkage is
\* the median of the sample when it is non-empty, otherwise the mean of the
\* whole series, otherwise null; an empty sample has statistics None.
C22_OrderedFallback ==
    /\ AfterShrink =>
          LET series_mean == IF Len(df_prec) > 0 THEN np_mean(Values(df_prec))
                             ELSE None
          IN  /\ hist_avg_prec = IF Len(prec_sample) > 0 THEN np_mean(prec_sample)
                                 ELSE series_mean
              /\ (stats_prec = None) <=> (Len(prec_sample) = 0)
              /\ prior_mean_prec = IF Len(df_prec) = 0 THEN None
                                   ELSE IF Len(prec_sample) > 0
                                       THEN np_median(prec_sample)
                                   ELSE series_mean
    /\ pc = "compact_emitted" =>
          /\ compact.historical_stats.precip_mm.json =
               IF Len(prec_sample) = 0 THEN "null" ELSE "object"
          /\ compact.historical_avg.wind_m_s =
               IF df_wind = None THEN [json |-> "null"]
               ELSE [json |-> "number", value |-> np_mean(Values(df_wind))]
          /\ compact.historical_stats.wind_m_s = [json |-> "null"]
          /\ compact.historical_avg.temp_c =
               IF df_temp = None THEN [json |-> "null"]
               ELSE [json |-> "number", value |-> Frac(61, 2)]

(* No observation in the day-window, but a series whose mean is not its    *)
(* last value: the prior mean is the mean of the whole series.             *)
C22_Witness ==
    /\ pc = "compact_display"
    /\ Len(prec_sample) = 0
    /\ Len(df_prec) > 1
    /\ stats_prec = None
    /\ prior_mean_prec = np_mean(Values(df_prec))
    /\ prior_mean_prec # df_prec[Len(df_prec)].value
    /\ hist_avg_prec = prior_mean_prec

\* C23: fit_sarimax starts the automatic order search with seasonal period
\* 365 when the series has more than 730 points and 7 otherwise; when the
\* search raises or pmdarima is missing the fit is made with order (1,0,0)
\* and seasonal order (0,0,0,0); a failed search alone never raises: an
\* error comes out only when SARIMAX is missing or its fit raises.
C23_SearchThenDefaultOrder ==
    pc = "fit_return" =>
        /\ (caps.sarimax_avail /\ caps.pm_avail) =>
               model_res.m = IF Len(df_hist) > 730 THEN 365 ELSE 7
        /\ (caps.sarimax_avail /\ caps.fit_ok /\
            ~(caps.pm_avail /\ caps.auto_ok)) =>
               /\ model_res.status = "fitted"
               /\ model_res.order = <<1, 0, 0>>
               /\ model_res.seasonal_order = <<0, 0, 0, 0>>
        /\ (caps.sarimax_avail /\ caps.fit_ok /\ caps.pm_avail /\ caps.auto_ok) =>
               /\ model_res.status = "fitted"
               /\ model_res.order = caps.auto_order
        /\ model_res.status = "raised" <=> (~caps.sarimax_avail \/ ~caps.fit_ok)

(* A series of 731 points whose search, started with period 365, raised:   *)
(* the fit is made with the default order.                                 *)
C23_Witness ==
    /\ pc = "fit_return"
    /\ Len(df_hist) = 731
    /\ caps.pm_avail /\ ~caps.auto_ok
    /\ model_res.m = 365
    /\ model_res.status = "fitted"
    /\ model_res.order = <<1, 0, 0>>

C25_UnusableVarianceGivesPosteriorMean ==
    (/\ AfterShrink
     /\ forecast_prec # None /\ prior_mean_prec # None) =>
        LET Unusable(v) == v = None \/ ~RLt(R(0), v)
            Sq(x) == RMul(x, x)
            vp == IF Len(prec_sample) >= 2 THEN np_var(prec_sample, 1)
                  ELSE IF stats_prec # None
                  THEN Sq(RDiv(RSub(stats_prec.p75, stats_prec.p25),
                               Frac(1349, 1000)))
                  ELSE None
            vf1 == IF Unusable(recent_prec_var) THEN R(1) ELSE recent_prec_var
            vp1 == IF Unusable(vp) THEN R(1) ELSE vp
            post == RDiv(RAdd(RDiv(forecast_prec, vf1),
                              RDiv(prior_mean_prec, vp1)),
                         RAdd(RDiv(R(1), vf1), RDiv(R(1), vp1)))
        IN  (Unusable(recent_prec_var) \/ Unusable(vp)) =>
                adjusted_prec = RMax(R(0), post)

\* C26: iterative_forecast only appends to its working history: the caller's
\* table never changes, after k steps the history is the n original rows
\* followed by exactly k appended rows dated last_date + 1 .. last_date + k in
\* that order, and no step changes or removes a row the history already has.
C26_HistoryAppendOnly ==
    /\ [](pc \in {"mv_forecast", "mv_simulate", "simulated"} =>
            LET n == Len(df_hist)
                k == step - 1
            IN  /\ Len(history) = n + k
                /\ SubSeq(history, 1, n) = df_hist
                /\ \A i \in 1..k : history[n + i].date = IndexMax(df_hist) + i)
    /\ [][/\ df_hist' = df_hist
          /\ Len(history') >= Len(history)
          /\ SubSeq(history', 1, Len(history)) = history]_vars

(* The loop has run at least twice and every step has appended one row. *)
C26_Witness ==
    /\ pc = "mv_simulate"
    /\ forecast_days >= 2
    /\ step = forecast_days + 1
    /\ Len(history) = Len(df_hist) + forecast_days
    /\ history[Len(history)].date = IndexMax(df_hist) + forecast_days

\* C27: the feature row iterative_forecast builds to predict the day after
\* the last date d of its history is the row create_lag_features gives for d
\* on that history: for every variable the "_curr" feature is the value at d
\* and the lag k feature the value at d minus k days, k = 1..L.
C27_ForecastRowIsTrainingRow ==
    \A k \in 1..Len(feature_rows) :
        LET n == Len(df_hist) + k - 1
            hist == SubSeq(history, 1, n)
        IN  n > Lags =>
                /\ feature_rows[k] = create_lag_features(hist, Lags)[n]
                /\ \A c \in 1..Len(Cols) :
                      /\ feature_rows[k][<<Cols[c], 0>>] = hist[n][Cols[c]]
                      /\ \A lag \in 1..Lags :
                            feature_rows[k][<<Cols[c], lag>>] = hist[n - lag][Cols[c]]

\* C28: in the univariate script the i-th value the fitted seasonal-ARIMA
\* model returns, its forecast for i days after the last historical date, is
\* labelled with the date last historical date + i, whatever forecast_start.
C28_SarimaxValuesCarryTheirDates ==
    (PathBuilt /\ pipeline = "power" /\ model_res # None) =>
        \A i \in 1..Len(df_fore) :
            /\ df_fore[i].mean = GetForecast(model_res, i).mean
            /\ df_fore[i].date = IndexMax(df_hist) + i

\* C29: for a non-empty horizon every day holds the same number of samples
\* and the pooled exceedance probability is the arithmetic mean of the
\* per-day probabilities, hence no smaller than the smallest and no larger
\* than the largest of them.
C29_PooledIsMeanOfDays ==
    (pc = "simulated" /\ Len(df_fore) > 0) =>
        /\ Len(prob_per_day) = Len(df_fore)
        /\ \A i \in 1..Len(sim_matrix) : Len(sim_matrix[i]) = Nsim
        /\ overall_prob = RDiv(SeqSum(prob_per_day), R(Len(prob_per_day)))
        /\ \E i \in 1..Len(prob_per_day) : RLe(prob_per_day[i], overall_prob)
        /\ \E i \in 1..Len(prob_per_day) : RLe(overall_prob, prob_per_day[i])

(* Two days of different probability, the pooled one strictly between. *)
C29_Witness ==
    /\ pc = "simulated"
    /\ Len(df_fore) >= 2
    /\ RLt(prob_per_day[1], overall_prob)
    /\ RLt(overall_prob, prob_per_day[2])

\* C30: with the raw forecast f and the prior mean p both available, the
\* adjusted precipitation lies between min(f, p) and max(f, p), on the
\* weighted path and on the posterior-mean path alike; f and p being
\* non-negative, the clamp at zero leaves it as it is, it is non-negative,
\* and it equals f when f = p.
C30_AdjustedBetweenForecastAndPrior ==
    (/\ AfterShrink
     /\ forecast_prec # None /\ prior_mean_prec # None) =>
        /\ RLe(R(0), forecast_prec) /\ RLe(R(0), prior_mean_prec)
        /\ adjusted_prec # None
        /\ RLe(RMin(forecast_prec, prior_mean_prec), adjusted_prec)
        /\ RLe(adjusted_prec, RMax(forecast_prec, prior_mean_prec))
        /\ RLe(R(0), adjusted_prec)
        /\ forecast_prec = prior_mean_prec => adjusted_prec = forecast_prec

(* The posterior-mean path has put the blend strictly between a forecast   *)
(* and a prior mean that differ.                                            *)
C30_Witness ==
    /\ AfterShrink
    /\ forecast_prec # None /\ prior_mean_prec # None
    /\ weight_prior = None
    /\ RLt(RMin(forecast_prec, prior_mean_prec), adjusted_prec)
    /\ RLt(adjusted_prec, RMax(forecast_prec, prior_mean_prec))

====
